---- MODULE Spec2Model ----
(***************************************************************************)
(* Buffer pool manager, LRU-K replacer and disk scheduler of the storage   *)
(* engine, as a state machine.  Every public method is one action; the     *)
(* methods themselves are operators from a state record to a result        *)
(* record, so that callers (guards, the hash index) can compose them.      *)
(***************************************************************************)
EXTENDS Integers, Sequences, FiniteSets, TLC

VARIABLES
  pool_size_,          \* number of frames, fixed at construction
  replacer_size_,      \* replacer: number of frames, fixed at construction
  pages_,              \* frame array: page_id_, pin_count_, is_dirty_, data_
  free_list_,          \* std::list<frame_id_t>
  page_table_,         \* std::unordered_map<page_id_t, frame_id_t>
  node_store_,         \* replacer: frame id -> LRUKNode
  curr_size_,          \* replacer: number of evictable nodes
  current_timestamp_,  \* replacer: logical clock
  next_page_id_,       \* next fresh page id
  free_ids_,           \* recycled page ids
  disk,                \* disk image: page id -> bytes
  queue,               \* disk scheduler: write requests not yet processed
  acquired,            \* history: New/Fetch returns of a frame, this residency
  released,            \* history: successful unpins of a frame, this residency
  ever_dirty,          \* history: frame unpinned dirty during this residency
  owed,                \* history: bytes of a page evicted after a dirty unpin
  unreported,          \* history: frame written to, dirty unpin still to come
  accesses,            \* history: every access to a tracked frame
  guards,              \* page guards: the guard objects of the callers
  rwlatch_,            \* Page::rwlatch_ of each frame
  halt,                \* how the process ended, "none" while it runs
  htable,              \* the hash index: its members and its pages
  stored,              \* history: key -> value of the last successful
                       \* Insert that no successful Remove has followed
  inserted_keys,       \* history: the keys passed to Insert, while the
                       \* calls so far are Inserts of different keys
  result,              \* what the last call of GetValue returned
  threads              \* the threads that call the hash index: the call
                       \* each is in, where it is, the guards it holds

vars == <<pool_size_, replacer_size_, pages_, free_list_, page_table_,
          node_store_, curr_size_, current_timestamp_, next_page_id_,
          free_ids_, disk, queue,
          acquired, released, ever_dirty, owed, unreported, accesses,
          guards, rwlatch_, halt, htable, stored, inserted_keys, result,
          threads>>

HashVars == <<htable, stored, inserted_keys, result, threads>>

-----------------------------------------------------------------------------
(* Bounds of the exploration *)

PoolSize == 3
DiskPoolSize == 2
MaxPageId == 4
MaxData == 1
MaxTime == 5
MaxQueue == 1
MaxDiskQueue == 1
MaxPin == 2
MaxDiskPin == 2
MaxDiskTime == 4
MaxDiskPageId == 3
MaxAccess == 5
ReplacerSize == 3
GuardPoolSize == 2
MaxGuards == 3
MaxGuardTime == 3
MaxGuardPageId == 3
HeaderMaxDepth == 0
DirectoryMaxDepth == 3
BucketMaxSize == 1
MaxKey == 6
MaxHashPageId == 7
MaxValue == 1
SmallDirectoryMaxDepth == 1

MaxThreads == 2

MaxThreadKey == 2

MaxThreadPageId == 6

ThreadPoolSize == 8

(* Program constants *)

k_ == 2
INVALID_PAGE_ID == -1
INT32_MAX == 2147483647

Frames == 0 .. (pool_size_ - 1)
PageIds == 0 .. (MaxPageId - 1)
Data == 0 .. MaxData

\* the value of a frame id that names no frame
NoFrame == -1
GuardIds == 1 .. MaxGuards

(* All enumerations of a finite set: the orders in which an unordered_map *)
(* may be iterated.                                                       *)
Orders(S) ==
  {o \in [1 .. Cardinality(S) -> S] :
     \A i, j \in 1 .. Cardinality(S) : i # j => o[i] # o[j]}

-----------------------------------------------------------------------------
(* LRUKNode *)

LRUKNode(fid) == [history |-> <<>>, is_evictable |-> FALSE]

AddHistory(n, ts) ==
  LET h == Append(n.history, ts)
  IN [n EXCEPT !.history = IF Len(h) > k_ THEN Tail(h) ELSE h]

GetK(n) == Len(n.history)

GetEvictable(n) == n.is_evictable

\* timestamp of the k-th most recent access, or of the earliest recorded
\* access when fewer than k are recorded
GetKDistance(n, k) ==
  IF Len(n.history) >= k THEN n.history[Len(n.history) - k + 1]
  ELSE n.history[1]

-----------------------------------------------------------------------------
(* LRUKReplacer: operators on a replacer record                           *)
(*   [replacer_size_, node_store_, curr_size_, current_timestamp_]        *)

Erase(m, key) == [x \in (DOMAIN m) \ {key} |-> m[x]]

Emplace(m, key, val) ==
  [x \in (DOMAIN m) \cup {key} |-> IF x = key THEN val ELSE m[x]]

\* one iteration of the loop of Evict over the entry (u, v)
EvictVisitMutLast(acc, u, v) ==
  IF ~GetEvictable(v) THEN acc
  ELSE IF GetK(v) < k_
    THEN IF ~acc.less_k
           THEN [f_id |-> u, dist |-> GetKDistance(v, k_), less_k |-> TRUE]
           ELSE IF GetKDistance(v, k_) < acc.dist
                  THEN [acc EXCEPT !.dist = GetKDistance(v, k_), !.f_id = u]
                  ELSE acc
    ELSE IF GetKDistance(v, k_) < acc.dist
           THEN [acc EXCEPT !.dist = GetKDistance(v, k_), !.f_id = u]
           ELSE acc

EvictVisit(acc, u, v) ==
  IF ~GetEvictable(v) THEN acc
  ELSE IF GetK(v) < k_
    THEN IF ~acc.less_k
           THEN [f_id |-> u, dist |-> GetKDistance(v, k_), less_k |-> TRUE]
           ELSE IF GetKDistance(v, k_) < acc.dist
                  THEN [acc EXCEPT !.dist = GetKDistance(v, k_), !.f_id = u]
                  ELSE acc
    ELSE IF ~acc.less_k /\ GetKDistance(v, k_) < acc.dist
           THEN [acc EXCEPT !.dist = GetKDistance(v, k_), !.f_id = u]
           ELSE acc

RECURSIVE EvictScan(_, _, _, _)
EvictScan(ns, order, i, acc) ==
  IF i > Len(order) THEN acc
  ELSE EvictScan(ns, order, i + 1, EvictVisit(acc, order[i], ns[order[i]]))

\* Evict that leaves curr_size_ as it was
EvictMutKeepsSize(r, order) ==
  IF r.curr_size_ = 0
    THEN [r |-> r, ret |-> FALSE, frame_id |-> NoFrame]
    ELSE LET sc == EvictScan(r.node_store_, order, 1,
                     [f_id |-> NoFrame, dist |-> INT32_MAX, less_k |-> FALSE])
         IN [r |-> [r EXCEPT !.node_store_ = Erase(@, sc.f_id)],
             ret |-> TRUE, frame_id |-> sc.f_id]

\* Evict: order is the iteration order of node_store_
Evict(r, order) ==
  IF r.curr_size_ = 0
    THEN [r |-> r, ret |-> FALSE, frame_id |-> NoFrame]
    ELSE LET sc == EvictScan(r.node_store_, order, 1,
                     [f_id |-> NoFrame, dist |-> INT32_MAX, less_k |-> FALSE])
         IN [r |-> [r EXCEPT !.node_store_ = Erase(@, sc.f_id),
                             !.curr_size_ = @ - 1],
             ret |-> TRUE, frame_id |-> sc.f_id]

RecordAccess(r, frame_id) ==
  LET r1 == [r EXCEPT !.current_timestamp_ = @ + 1]
  IN IF frame_id > r.replacer_size_
       THEN [r |-> r1, exc |-> "InvalidFrame"]
       ELSE LET ns == IF frame_id \in DOMAIN r1.node_store_
                        THEN r1.node_store_
                        ELSE Emplace(r1.node_store_, frame_id, LRUKNode(frame_id))
            IN [r |-> [r1 EXCEPT !.node_store_ =
                         [ns EXCEPT ![frame_id] =
                            AddHistory(@, r1.current_timestamp_)]],
                exc |-> "none"]

\* SetEvictable without the test of line 73 for an unchanged flag
SetEvictableMutNoTest(r, frame_id, set_evictable) ==
  IF frame_id \in DOMAIN r.node_store_
    THEN [r |-> [r EXCEPT
                   !.node_store_[frame_id].is_evictable = set_evictable,
                   !.curr_size_ = IF set_evictable THEN @ + 1 ELSE @ - 1],
          exc |-> "none"]
    ELSE [r |-> r, exc |-> "UnknownFrame"]

SetEvictable(r, frame_id, set_evictable) ==
  IF frame_id \in DOMAIN r.node_store_
    THEN IF GetEvictable(r.node_store_[frame_id]) = set_evictable
           THEN [r |-> r, exc |-> "none"]
           ELSE [r |-> [r EXCEPT
                          !.node_store_[frame_id].is_evictable = set_evictable,
                          !.curr_size_ = IF set_evictable THEN @ + 1 ELSE @ - 1],
                 exc |-> "none"]
    ELSE [r |-> r, exc |-> "UnknownFrame"]

\* Remove without the test of line 89 for a node that is not evictable
RemoveMutNoThrow(r, frame_id) ==
  IF frame_id \notin DOMAIN r.node_store_
    THEN [r |-> r, exc |-> "none"]
    ELSE [r |-> [r EXCEPT !.node_store_ = Erase(@, frame_id),
                          !.curr_size_ = @ - 1],
          exc |-> "none"]

Remove(r, frame_id) ==
  IF frame_id \notin DOMAIN r.node_store_
    THEN [r |-> r, exc |-> "none"]
    ELSE IF ~GetEvictable(r.node_store_[frame_id])
      THEN [r |-> r, exc |-> "NonEvictable"]
      ELSE [r |-> [r EXCEPT !.node_store_ = Erase(@, frame_id),
                            !.curr_size_ = @ - 1],
            exc |-> "none"]

Size(r) == r.curr_size_

-----------------------------------------------------------------------------
(* DiskScheduler and DiskManager: requests {is_write, data_, page_id} are *)
(* processed in FIFO order by one background worker; data_ is a pointer   *)
(* into the frame, dereferenced when the request is processed.            *)

Schedule(s, r) == [s EXCEPT !.queue = Append(@, r)]

ProcessRequest(s, r) ==
  IF r.is_write
    THEN [s EXCEPT !.disk[r.page_id] = s.pages_[r.frame].data_]
    ELSE [s EXCEPT !.pages_[r.frame].data_ = s.disk[r.page_id]]

\* the worker takes the request at the head of the queue
WorkerStep(s) == [ProcessRequest(s, Head(s.queue)) EXCEPT !.queue = Tail(@)]

\* future.get() on the request scheduled last: the worker has processed
\* every request up to and including it
RECURSIVE FutureGet(_)
FutureGet(s) == IF s.queue = <<>> THEN s ELSE FutureGet(WorkerStep(s))

-----------------------------------------------------------------------------
(* Page *)

ResetMemory(pg) == [pg EXCEPT !.data_ = 0]

-----------------------------------------------------------------------------
(* BufferPoolManager: operators on a pool record                          *)

AllocatePage(s) ==
  IF s.free_ids_ # <<>>
    THEN [s |-> [s EXCEPT !.free_ids_ = Tail(@)], id |-> Head(s.free_ids_)]
    ELSE [s |-> [s EXCEPT !.next_page_id_ = @ + 1], id |-> s.next_page_id_]

DeallocatePage(s, page_id) == [s EXCEPT !.free_ids_ = Append(@, page_id)]

\* lines 50-60 and 92-103: page_table_.erase, write-back if dirty, reset
EvictFrame(s, fit) ==
  LET temp == s.pages_[fit].page_id_
      s1 == [s EXCEPT !.page_table_ = Erase(@, temp)]
      s2 == IF s1.pages_[fit].is_dirty_
              THEN FutureGet(
                     [Schedule(s1, [is_write |-> TRUE, frame |-> fit,
                                    page_id |-> temp])
                        EXCEPT !.pages_[fit].is_dirty_ = FALSE])
              ELSE s1
  IN [s2 EXCEPT !.pages_[fit] = ResetMemory(@)]

\* the frame for a page that is not resident: evicted, or from the free
\* list; ret = FALSE when there is none
AcquireFrame(s, order) ==
  IF s.free_list_ = <<>>
    THEN LET ev == Evict(s.replacer_, order)
         IN IF ~ev.ret
              THEN [s |-> s, ret |-> FALSE, fit |-> NoFrame,
                    victim |-> INVALID_PAGE_ID, wrote |-> FALSE]
              ELSE [s |-> EvictFrame([s EXCEPT !.replacer_ = ev.r], ev.frame_id),
                    ret |-> TRUE, fit |-> ev.frame_id,
                    victim |-> s.pages_[ev.frame_id].page_id_,
                    wrote |-> s.pages_[ev.frame_id].is_dirty_]
    ELSE [s |-> [s EXCEPT !.free_list_ = Tail(@)], ret |-> TRUE,
          fit |-> Head(s.free_list_), victim |-> INVALID_PAGE_ID,
          wrote |-> FALSE]

NewPage(s, order) ==
  LET a == AcquireFrame(s, order)
  IN IF ~a.ret
       THEN [s |-> s, ret |-> FALSE, page_id |-> INVALID_PAGE_ID,
             fit |-> NoFrame, victim |-> INVALID_PAGE_ID, wrote |-> FALSE]
       ELSE
         LET al == AllocatePage(a.s)
             pit == al.id
             fit == a.fit
             s1 == [al.s EXCEPT !.page_table_ = Emplace(@, pit, fit)]
             r1 == RecordAccess(s1.replacer_, fit).r
             r2 == SetEvictable(r1, fit, FALSE).r
         IN [s |-> [s1 EXCEPT !.replacer_ = r2,
                              !.pages_[fit].page_id_ = pit,
                              !.pages_[fit].is_dirty_ = FALSE,
                              !.pages_[fit].pin_count_ = 1],
             ret |-> TRUE, page_id |-> pit, fit |-> fit,
             victim |-> a.victim, wrote |-> a.wrote]

\* FetchPageHit without the pin
FetchPageHitMutNoPin(s, page_id) ==
  LET fit == s.page_table_[page_id]
      r1 == RecordAccess(s.replacer_, fit).r
      r2 == SetEvictable(r1, fit, FALSE).r
  IN [s |-> [s EXCEPT !.replacer_ = r2],
      ret |-> TRUE, page_id |-> page_id, hit |-> TRUE, fit |-> fit,
      victim |-> INVALID_PAGE_ID, wrote |-> FALSE]

\* lines 82-86: the page is resident
FetchPageHit(s, page_id) ==
  LET fit == s.page_table_[page_id]
      r1 == RecordAccess(s.replacer_, fit).r
      r2 == SetEvictable(r1, fit, FALSE).r
  IN [s |-> [s EXCEPT !.replacer_ = r2, !.pages_[fit].pin_count_ = @ + 1],
      ret |-> TRUE, page_id |-> page_id, hit |-> TRUE, fit |-> fit,
      victim |-> INVALID_PAGE_ID, wrote |-> FALSE]

FetchPage(s, page_id, order) ==
  IF page_id \in DOMAIN s.page_table_
    THEN FetchPageHit(s, page_id)
    ELSE
      LET a == AcquireFrame(s, order)
      IN IF ~a.ret
           THEN [s |-> s, ret |-> FALSE, page_id |-> page_id, hit |-> FALSE,
                 fit |-> NoFrame, victim |-> INVALID_PAGE_ID,
                 wrote |-> FALSE]
           ELSE
             LET fit == a.fit
                 s1 == [a.s EXCEPT !.page_table_ = Emplace(@, page_id, fit)]
                 r1 == RecordAccess(s1.replacer_, fit).r
                 r2 == SetEvictable(r1, fit, FALSE).r
                 s2 == [s1 EXCEPT !.replacer_ = r2,
                                  !.pages_[fit].page_id_ = page_id,
                                  !.pages_[fit].pin_count_ = @ + 1]
             IN [s |-> FutureGet(Schedule(s2, [is_write |-> FALSE,
                                               frame |-> fit,
                                               page_id |-> page_id])),
                 ret |-> TRUE, page_id |-> page_id, hit |-> FALSE,
                 fit |-> fit, victim |-> a.victim, wrote |-> a.wrote]

\* UnpinPage without the test of line 128 for a pin count of 0
UnpinPageMutNoZeroTest(s, page_id, is_dirty) ==
  IF page_id \notin DOMAIN s.page_table_
    THEN [s |-> s, ret |-> FALSE]
    ELSE
      LET fit == s.page_table_[page_id]
          s1 == [s EXCEPT !.pages_[fit].pin_count_ = @ - 1,
                          !.pages_[fit].is_dirty_ =
                             IF is_dirty THEN is_dirty ELSE @]
      IN [s |-> IF s1.pages_[fit].pin_count_ = 0
                  THEN [s1 EXCEPT !.replacer_ = SetEvictable(@, fit, TRUE).r]
                  ELSE s1,
          ret |-> TRUE]

\* UnpinPage that never tells the replacer
UnpinPageMutNotEvictable(s, page_id, is_dirty) ==
  IF page_id \notin DOMAIN s.page_table_
    THEN [s |-> s, ret |-> FALSE]
    ELSE
      LET fit == s.page_table_[page_id]
      IN IF s.pages_[fit].pin_count_ = 0
           THEN [s |-> s, ret |-> FALSE]
           ELSE [s |-> [s EXCEPT !.pages_[fit].pin_count_ = @ - 1,
                                 !.pages_[fit].is_dirty_ =
                                    IF is_dirty THEN is_dirty ELSE @],
                 ret |-> TRUE]

UnpinPage(s, page_id, is_dirty) ==
  IF page_id \notin DOMAIN s.page_table_
    THEN [s |-> s, ret |-> FALSE]
    ELSE
      LET fit == s.page_table_[page_id]
      IN IF s.pages_[fit].pin_count_ = 0
           THEN [s |-> s, ret |-> FALSE]
           ELSE
             LET s1 == [s EXCEPT !.pages_[fit].pin_count_ = @ - 1,
                                 !.pages_[fit].is_dirty_ =
                                    IF is_dirty THEN is_dirty ELSE @]
             IN [s |-> IF s1.pages_[fit].pin_count_ = 0
                         THEN [s1 EXCEPT !.replacer_ =
                                 SetEvictable(@, fit, TRUE).r]
                         ELSE s1,
                 ret |-> TRUE]

\* FlushPage that returns without waiting for the write
FlushPageMutNoWait(s, page_id) ==
  IF page_id \notin DOMAIN s.page_table_
    THEN [s |-> s, ret |-> FALSE]
    ELSE
      LET fit == s.page_table_[page_id]
          s1 == Schedule(s, [is_write |-> TRUE, frame |-> fit,
                             page_id |-> page_id])
      IN [s |-> [s1 EXCEPT !.pages_[fit].is_dirty_ = FALSE], ret |-> TRUE]

FlushPage(s, page_id) ==
  IF page_id \notin DOMAIN s.page_table_
    THEN [s |-> s, ret |-> FALSE]
    ELSE
      LET fit == s.page_table_[page_id]
          s1 == Schedule(s, [is_write |-> TRUE, frame |-> fit,
                             page_id |-> page_id])
      IN [s |-> FutureGet([s1 EXCEPT !.pages_[fit].is_dirty_ = FALSE]),
          ret |-> TRUE]

\* order is the iteration order of page_table_; no future is waited on
RECURSIVE FlushAllPagesFrom(_, _, _)
FlushAllPagesFrom(s, order, i) ==
  IF i > Len(order) THEN s
  ELSE LET page_id == order[i]
           frame_id == s.page_table_[page_id]
           s1 == Schedule(s, [is_write |-> TRUE, frame |-> frame_id,
                              page_id |-> page_id])
       IN FlushAllPagesFrom([s1 EXCEPT !.pages_[frame_id].is_dirty_ = FALSE],
                            order, i + 1)

FlushAllPages(s, order) == FlushAllPagesFrom(s, order, 1)

\* DeletePage that leaves the node of the frame in the replacer
DeletePageMutKeepsNode(s, page_id) ==
  IF page_id \notin DOMAIN s.page_table_
    THEN [s |-> s, ret |-> TRUE, exc |-> "none"]
    ELSE
      LET fit == s.page_table_[page_id]
      IN IF s.pages_[fit].pin_count_ > 0
           THEN [s |-> s, ret |-> FALSE, exc |-> "none"]
           ELSE
             LET s1 == [s EXCEPT !.pages_[fit] =
                           [ResetMemory(@) EXCEPT !.is_dirty_ = FALSE,
                                                  !.page_id_ = INVALID_PAGE_ID],
                         !.page_table_ = Erase(@, page_id),
                         !.free_list_ = Append(@, fit)]
             IN [s |-> DeallocatePage(s1, page_id), ret |-> TRUE,
                 exc |-> "none"]

DeletePage(s, page_id) ==
  IF page_id \notin DOMAIN s.page_table_
    THEN [s |-> s, ret |-> TRUE, exc |-> "none"]
    ELSE
      LET fit == s.page_table_[page_id]
      IN IF s.pages_[fit].pin_count_ > 0
           THEN [s |-> s, ret |-> FALSE, exc |-> "none"]
           ELSE
             LET s1 == [s EXCEPT !.pages_[fit] =
                           [ResetMemory(@) EXCEPT !.is_dirty_ = FALSE,
                                                  !.page_id_ = INVALID_PAGE_ID],
                         !.page_table_ = Erase(@, page_id),
                         !.free_list_ = Append(@, fit)]
                 rm == Remove(s1.replacer_, fit)
             IN IF rm.exc # "none"
                  THEN [s |-> s1, ret |-> FALSE, exc |-> rm.exc]
                  ELSE [s |-> DeallocatePage([s1 EXCEPT !.replacer_ = rm.r],
                                             page_id),
                        ret |-> TRUE, exc |-> "none"]

-----------------------------------------------------------------------------
(* Page::rwlatch_, a reader-writer latch: any number of readers or one    *)
(* writer.  RLatch and WLatch block while the latch cannot be taken.      *)

NoLatch == [readers |-> 0, writer |-> FALSE]

CanRLatch(l, f) == ~l[f].writer

CanWLatch(l, f) == ~l[f].writer /\ l[f].readers = 0

RLatch(l, f) == [l EXCEPT ![f].readers = @ + 1]

WLatch(l, f) == [l EXCEPT ![f].writer = TRUE]

RUnlatch(l, f) == [l EXCEPT ![f].readers = @ - 1]

WUnlatch(l, f) == [l EXCEPT ![f].writer = FALSE]

-----------------------------------------------------------------------------
(* Page guards: operators on a world record w (the pool s, the latches l, *)
(* how the process ended, and the calls made to the pool and the latches) *)
(* and on guard records.  bpm_ is TRUE for the pool and FALSE for         *)
(* nullptr; page_ is the frame of the Page and NoFrame for nullptr.       *)
(* A use of the Page behind page_ = nullptr is undefined behaviour: it    *)
(* reads or locks memory at a small offset from address 0, and the        *)
(* process faults.                                                        *)

\* BasicPageGuard(bpm, page)
BasicPageGuard(bpm, page) ==
  [bpm_ |-> bpm, page_ |-> page, is_dirty_ |-> FALSE]

\* BasicPageGuard()
DefaultGuard == BasicPageGuard(FALSE, NoFrame)

\* GetDataMut: the caller is about to write the bytes of the page
GetDataMut(g) == [g EXCEPT !.is_dirty_ = TRUE]

Called(w, op, frame, page_id, is_dirty) ==
  [w EXCEPT !.events = Append(@, [op |-> op, frame |-> frame,
                                  page_id |-> page_id,
                                  is_dirty |-> is_dirty])]

Halt(w, how) == [w EXCEPT !.halt = how]

\* an exception that leaves a noexcept function or a destructor
Terminate(w) ==
  IF w.halt = "Exception" THEN Halt(w, "terminate") ELSE w

\* BasicPageGuard(BasicPageGuard &&that)
BasicMove(that) ==
  [this |-> [bpm_ |-> that.bpm_, page_ |-> that.page_,
             is_dirty_ |-> that.is_dirty_],
   that |-> DefaultGuard]

\* BasicPageGuard::Drop that forgets the page without a call of UnpinPage
BasicDropMutNoUnpin(w, g) == [w |-> w, g |-> DefaultGuard]

\* BasicPageGuard::Drop
BasicDrop(w, g) ==
  IF ~g.bpm_
    THEN [w |-> w, g |-> g]
    ELSE IF g.page_ = NoFrame
      THEN [w |-> Halt(w, "fault"), g |-> g]
      ELSE
        LET page_id == w.s.pages_[g.page_].page_id_
            res == UnpinPage(w.s, page_id, g.is_dirty_)
            w1 == Called([w EXCEPT !.s = res.s], "UnpinPage", g.page_,
                         page_id, g.is_dirty_)
        IN IF res.ret
             THEN [w |-> w1, g |-> DefaultGuard]
             ELSE [w |-> Halt(w1, "Exception"), g |-> g]

\* BasicPageGuard::operator=(BasicPageGuard &&that) noexcept
BasicAssign(w, this, that) ==
  LET d == BasicDrop(w, this)
  IN IF d.w.halt # "none"
       THEN [w |-> Terminate(d.w), this |-> d.g, that |-> that]
       ELSE [w |-> d.w,
             this |-> [bpm_ |-> that.bpm_, page_ |-> that.page_,
                       is_dirty_ |-> that.is_dirty_],
             that |-> DefaultGuard]

\* ~BasicPageGuard()
BasicDestroy(w, g) ==
  LET d == BasicDrop(w, g)
  IN [w |-> Terminate(d.w), g |-> d.g]

\* UpgradeRead and UpgradeWrite wait for the latch of the page
CanUpgradeRead(w, g) ==
  (g.bpm_ /\ g.page_ # NoFrame) => CanRLatch(w.l, g.page_)

CanUpgradeWrite(w, g) ==
  (g.bpm_ /\ g.page_ # NoFrame) => CanWLatch(w.l, g.page_)

\* BasicPageGuard::UpgradeRead; temp is the guard_ of the ReadPageGuard
UpgradeRead(w, g) ==
  IF g.bpm_ /\ g.page_ = NoFrame
    THEN [w |-> Halt(w, "fault"), this |-> g, temp |-> DefaultGuard]
    ELSE
      LET w1 == IF g.bpm_
                  THEN Called([w EXCEPT !.l = RLatch(@, g.page_)], "RLatch",
                              g.page_, INVALID_PAGE_ID, FALSE)
                  ELSE w
      IN [w |-> w1, this |-> DefaultGuard,
          temp |-> BasicPageGuard(g.bpm_, g.page_)]

\* BasicPageGuard::UpgradeWrite; temp is the guard_ of the WritePageGuard
UpgradeWrite(w, g) ==
  IF g.bpm_ /\ g.page_ = NoFrame
    THEN [w |-> Halt(w, "fault"), this |-> g, temp |-> DefaultGuard]
    ELSE
      LET w1 == IF g.bpm_
                  THEN Called([w EXCEPT !.l = WLatch(@, g.page_)], "WLatch",
                              g.page_, INVALID_PAGE_ID, FALSE)
                  ELSE w
      IN [w |-> w1, this |-> DefaultGuard,
          temp |-> BasicPageGuard(g.bpm_, g.page_)]

\* ReadPageGuard(ReadPageGuard &&that): guard_ is default-constructed,
\* then assigned
ReadMove(w, that) == BasicAssign(w, DefaultGuard, that)

\* ReadPageGuard::Drop that unpins before it releases the latch
ReadDropMutUnpinFirst(w, g) ==
  IF ~g.bpm_
    THEN [w |-> w, g |-> g]
    ELSE IF g.page_ = NoFrame
      THEN [w |-> Halt(w, "fault"), g |-> g]
      ELSE
        LET d == BasicDrop(w, g)
        IN [w |-> Called([d.w EXCEPT !.l = RUnlatch(@, g.page_)],
                         "RUnlatch", g.page_, INVALID_PAGE_ID, FALSE),
            g |-> d.g]

\* ReadPageGuard::Drop; g is guard_
ReadDrop(w, g) ==
  IF ~g.bpm_
    THEN [w |-> w, g |-> g]
    ELSE IF g.page_ = NoFrame
      THEN [w |-> Halt(w, "fault"), g |-> g]
      ELSE
        LET w1 == Called([w EXCEPT !.l = RUnlatch(@, g.page_)],
                         "RUnlatch", g.page_, INVALID_PAGE_ID, FALSE)
        IN BasicDrop(w1, g)

\* ReadPageGuard::operator=(ReadPageGuard &&that) noexcept
ReadAssign(w, this, that) ==
  LET d == ReadDrop(w, this)
  IN IF d.w.halt # "none"
       THEN [w |-> Terminate(d.w), this |-> d.g, that |-> that]
       ELSE BasicAssign(d.w, d.g, that)

\* ~ReadPageGuard(): Drop, then the destructor of guard_
ReadDestroy(w, g) ==
  LET d == ReadDrop(w, g)
  IN IF d.w.halt # "none"
       THEN [w |-> Terminate(d.w), g |-> d.g]
       ELSE BasicDestroy(d.w, d.g)

\* WritePageGuard(WritePageGuard &&that)
WriteMove(w, that) == BasicAssign(w, DefaultGuard, that)

\* WritePageGuard::Drop; g is guard_
WriteDrop(w, g) ==
  IF ~g.bpm_
    THEN [w |-> w, g |-> g]
    ELSE IF g.page_ = NoFrame
      THEN [w |-> Halt(w, "fault"), g |-> g]
      ELSE
        LET w1 == Called([w EXCEPT !.l = WUnlatch(@, g.page_)],
                         "WUnlatch", g.page_, INVALID_PAGE_ID, FALSE)
        IN BasicDrop(w1, g)

\* WritePageGuard::operator=(WritePageGuard &&that) noexcept
WriteAssign(w, this, that) ==
  LET d == WriteDrop(w, this)
  IN IF d.w.halt # "none"
       THEN [w |-> Terminate(d.w), this |-> d.g, that |-> that]
       ELSE BasicAssign(d.w, d.g, that)

\* ~WritePageGuard(): Drop, then the destructor of guard_
WriteDestroy(w, g) ==
  LET d == WriteDrop(w, g)
  IN IF d.w.halt # "none"
       THEN [w |-> Terminate(d.w), g |-> d.g]
       ELSE BasicDestroy(d.w, d.g)

\* BufferPoolManager::FetchPageBasic
FetchPageBasic(w, page_id, order) ==
  LET res == FetchPage(w.s, page_id, order)
  IN [w |-> Called([w EXCEPT !.s = res.s], "FetchPage", res.fit, page_id,
                   FALSE),
      ret |-> BasicPageGuard(TRUE, res.fit)]

\* BufferPoolManager::NewPageGuarded
NewPageGuarded(w, order) ==
  LET res == NewPage(w.s, order)
  IN [w |-> Called([w EXCEPT !.s = res.s], "NewPage", res.fit, res.page_id,
                   FALSE),
      ret |-> BasicPageGuard(TRUE, res.fit), page_id |-> res.page_id]

\* FetchPageRead and FetchPageWrite, line 1: the page is fetched; page is
\* the local variable
FetchPagePin(w, page_id, order) ==
  LET res == FetchPage(w.s, page_id, order)
  IN [w |-> Called([w EXCEPT !.s = res.s], "FetchPage", res.fit, page_id,
                   FALSE),
      page |-> res.fit]

\* FetchPageRead, lines 2 and 3: page->RLatch(); return {this, page}
FetchPageReadLatch(w, page) ==
  IF page = NoFrame
    THEN [w |-> Halt(w, "fault"), ret |-> DefaultGuard]
    ELSE [w |-> Called([w EXCEPT !.l = RLatch(@, page)], "RLatch", page,
                       INVALID_PAGE_ID, FALSE),
          ret |-> BasicPageGuard(TRUE, page)]

\* FetchPageWrite, lines 2 and 3: page->WLatch(); return {this, page}
FetchPageWriteLatch(w, page) ==
  IF page = NoFrame
    THEN [w |-> Halt(w, "fault"), ret |-> DefaultGuard]
    ELSE [w |-> Called([w EXCEPT !.l = WLatch(@, page)], "WLatch", page,
                       INVALID_PAGE_ID, FALSE),
          ret |-> BasicPageGuard(TRUE, page)]


-----------------------------------------------------------------------------
(* The state machine *)

\* no bytes: a value that is not in Data
NoData == MaxData + 1

\* the keys and values of the hash index
Keys == 0 .. MaxKey

Values == 0 .. MaxValue

\* no value: a value that is not in Values
NoValue == MaxValue + 1

\* no hash index has been constructed
NoTable == [header_page_id_ |-> INVALID_PAGE_ID]

\* the calls so far are not Inserts of different keys
Mixed == {MaxKey + 1}

\* GetValue has not been called
NoResult == [found |-> FALSE, value |-> NoValue]

\* a slot of guards without a guard object
NoGuard == [kind |-> "none", pc |-> "none", guard_ |-> DefaultGuard]

Pool ==
  [pages_ |-> pages_, free_list_ |-> free_list_, page_table_ |-> page_table_,
   replacer_ |-> [replacer_size_ |-> replacer_size_,
                  node_store_ |-> node_store_, curr_size_ |-> curr_size_,
                  current_timestamp_ |-> current_timestamp_],
   next_page_id_ |-> next_page_id_, free_ids_ |-> free_ids_,
   disk |-> disk, queue |-> queue]

InstallReplacer(r) ==
  /\ node_store_' = r.node_store_
  /\ curr_size_' = r.curr_size_
  /\ current_timestamp_' = r.current_timestamp_
  /\ UNCHANGED <<pool_size_, replacer_size_>>

Install(s) ==
  /\ pages_' = s.pages_
  /\ free_list_' = s.free_list_
  /\ page_table_' = s.page_table_
  /\ InstallReplacer(s.replacer_)
  /\ next_page_id_' = s.next_page_id_
  /\ free_ids_' = s.free_ids_
  /\ disk' = s.disk
  /\ queue' = s.queue

\* BufferPoolManager(pool_size, disk_manager, replacer_k)
ThreadIds == 1 .. MaxThreads

ThreadKeys == 0 .. MaxThreadKey

\* a thread that is in no call of the hash index
Idle == [op |-> "none", pc |-> "idle", key |-> 0, value |-> 0,
         dir_page |-> INVALID_PAGE_ID, bucket_page |-> INVALID_PAGE_ID,
         guards_ |-> <<>>]

Construct(pool_size) ==
  /\ pool_size_ = pool_size
  /\ replacer_size_ = pool_size
  /\ pages_ = [f \in 0 .. (pool_size - 1) |->
                               [page_id_ |-> INVALID_PAGE_ID,
                                 pin_count_ |-> 0, is_dirty_ |-> FALSE,
                                 data_ |-> 0]]
  /\ free_list_ = [i \in 1 .. pool_size |-> i - 1]
  /\ page_table_ = [x \in {} |-> NoFrame]
  /\ node_store_ = [x \in {} |-> LRUKNode(x)]
  /\ curr_size_ = 0
  /\ current_timestamp_ = 0
  /\ next_page_id_ = 0
  /\ free_ids_ = <<>>
  /\ disk = [p \in PageIds |-> 0]
  /\ queue = <<>>
  /\ acquired = [f \in 0 .. (pool_size - 1) |-> 0]
  /\ released = [f \in 0 .. (pool_size - 1) |-> 0]
  /\ ever_dirty = [f \in 0 .. (pool_size - 1) |-> FALSE]
  /\ owed = [p \in PageIds |-> NoData]
  /\ unreported = [f \in 0 .. (pool_size - 1) |-> FALSE]
  /\ accesses = [x \in {} |-> <<>>]
  /\ guards = [i \in GuardIds |-> NoGuard]
  /\ rwlatch_ = [f \in 0 .. (pool_size - 1) |-> NoLatch]
  /\ halt = "none"
  /\ htable = NoTable
  /\ stored = [key \in Keys |-> NoValue]
  /\ inserted_keys = {}
  /\ result = NoResult
  /\ threads = [t \in ThreadIds |-> Idle]

Init == Construct(PoolSize)

InitDisk == Construct(DiskPoolSize)

(* History variables.  A specification follows either the pins of each    *)
(* page ("pins") or the bytes owed to the disk ("bytes"); the other       *)
(* history stays as it is.                                                *)

\* a frame is loaded with a page that was not resident: it holds one pin;
\* the page it held before, if any, left with the bytes it had
BeginResidency(h, res) ==
  IF h = "pins"
    THEN /\ acquired' = [acquired EXCEPT ![res.fit] = 1]
         /\ released' = [released EXCEPT ![res.fit] = 0]
         /\ UNCHANGED <<ever_dirty, owed, unreported>>
    ELSE /\ ever_dirty' = [ever_dirty EXCEPT ![res.fit] = FALSE]
         /\ unreported' = [unreported EXCEPT ![res.fit] = FALSE]
         /\ owed' = [p \in DOMAIN owed |->
                       IF p = res.page_id THEN NoData
                       ELSE IF p = res.victim
                         THEN IF ever_dirty[res.fit]
                                THEN pages_[res.fit].data_ ELSE NoData
                         ELSE owed[p]]
         /\ UNCHANGED <<acquired, released>>

EndResidency(h, fit) ==
  IF h = "pins"
    THEN /\ acquired' = [acquired EXCEPT ![fit] = 0]
         /\ released' = [released EXCEPT ![fit] = 0]
         /\ UNCHANGED <<ever_dirty, owed, unreported>>
    ELSE /\ ever_dirty' = [ever_dirty EXCEPT ![fit] = FALSE]
         /\ unreported' = [unreported EXCEPT ![fit] = FALSE]
         /\ UNCHANGED <<acquired, released, owed>>

Pinned(h, fit) ==
  IF h = "pins"
    THEN /\ acquired' = [acquired EXCEPT ![fit] = @ + 1]
         /\ UNCHANGED <<released, ever_dirty, owed, unreported>>
    ELSE UNCHANGED <<acquired, released, ever_dirty, owed, unreported>>

Unpinned(h, fit, is_dirty) ==
  IF h = "pins"
    THEN /\ released' = [released EXCEPT ![fit] = @ + 1]
         /\ UNCHANGED <<acquired, ever_dirty, owed, unreported>>
    ELSE /\ ever_dirty' = IF is_dirty THEN [ever_dirty EXCEPT ![fit] = TRUE]
                          ELSE ever_dirty
         /\ unreported' = IF is_dirty THEN [unreported EXCEPT ![fit] = FALSE]
                          ELSE unreported
         /\ UNCHANGED <<acquired, released, owed>>

NoHistory == UNCHANGED <<acquired, released, ever_dirty, owed, unreported>>

\* the iteration orders of node_store_, where Evict is reached
EvictOrders ==
  IF free_list_ = <<>> THEN Orders(DOMAIN node_store_) ELSE {<<>>}

(* The calls.  maxTime and maxId bound the clock of the replacer and the  *)
(* page ids handed out, maxPin the pins on one page, maxQueue the length   *)
(* of the disk scheduler's queue.  Callers pass page ids that NewPage has *)
(* returned, and a caller that wrote a page's bytes unpins it dirty.      *)

Known == 0 .. (next_page_id_ - 1)

NewPageCall(h, maxTime, maxId) ==
  \E order \in EvictOrders :
    LET res == NewPage(Pool, order)
    IN /\ res.ret => /\ current_timestamp_ < maxTime
                     /\ free_ids_ # <<>> \/ next_page_id_ < maxId
       /\ Install(res.s)
       /\ IF res.ret THEN BeginResidency(h, res) ELSE NoHistory
       /\ UNCHANGED <<accesses, guards, rwlatch_, halt, HashVars>>

FetchPageCall(h, maxTime, maxPin) ==
  \E page_id \in Known, order \in EvictOrders :
    LET res == FetchPage(Pool, page_id, order)
    IN /\ res.ret => current_timestamp_ < maxTime
       /\ res.hit => pages_[res.fit].pin_count_ < maxPin
       /\ Install(res.s)
       /\ IF res.ret /\ res.hit THEN Pinned(h, res.fit)
          ELSE IF res.ret THEN BeginResidency(h, res)
          ELSE NoHistory
       /\ UNCHANGED <<accesses, guards, rwlatch_, halt, HashVars>>

UnpinPageCall(h) ==
  \E page_id \in Known, is_dirty \in BOOLEAN :
    LET res == UnpinPage(Pool, page_id, is_dirty)
        fit == IF res.ret THEN page_table_[page_id] ELSE NoFrame
    IN /\ (res.ret /\ unreported[fit]) => is_dirty
       /\ Install(res.s)
       /\ IF res.ret THEN Unpinned(h, fit, is_dirty) ELSE NoHistory
       /\ UNCHANGED <<accesses, guards, rwlatch_, halt, HashVars>>

FlushPageCall ==
  \E page_id \in Known :
    LET res == FlushPage(Pool, page_id)
        fit == IF res.ret THEN page_table_[page_id] ELSE NoFrame
    IN /\ Install(res.s)
       /\ NoHistory
       /\ UNCHANGED <<accesses, guards, rwlatch_, halt, HashVars>>

FlushAllPagesCall(maxQueue) ==
  \E order \in Orders(DOMAIN page_table_) :
    /\ Len(queue) + Len(order) <= maxQueue
    /\ Install(FlushAllPages(Pool, order))
    /\ NoHistory
    /\ UNCHANGED <<accesses, guards, rwlatch_, halt, HashVars>>

DeletePageCall(h) ==
  \E page_id \in Known :
    LET res == DeletePage(Pool, page_id)
        resident == page_id \in DOMAIN page_table_
        fit == IF resident THEN page_table_[page_id] ELSE NoFrame
        deleted == resident /\ pages_[fit].pin_count_ = 0
    IN /\ Install(res.s)
       /\ IF deleted THEN EndResidency(h, fit) ELSE NoHistory
       /\ UNCHANGED <<accesses, guards, rwlatch_, halt, HashVars>>

\* a holder of a pin writes the page's bytes through the Page pointer
WriteData ==
  \E f \in Frames, v \in Data :
    /\ pages_[f].pin_count_ > 0
    /\ pages_[f].data_ # v
    /\ pages_' = [pages_ EXCEPT ![f].data_ = v]
    /\ unreported' = [unreported EXCEPT ![f] = TRUE]
    /\ UNCHANGED <<pool_size_, replacer_size_, free_list_, page_table_,
                   node_store_, curr_size_, current_timestamp_,
                   next_page_id_, free_ids_, disk, queue,
                   acquired, released, ever_dirty, owed, accesses,
                   guards, rwlatch_, halt, HashVars>>

\* the background thread of the disk scheduler
DiskWorker ==
  /\ queue # <<>>
  /\ Install(WorkerStep(Pool))
  /\ NoHistory
  /\ UNCHANGED <<accesses, guards, rwlatch_, halt, HashVars>>

(* The buffer pool, its pages seen as opaque *)
Next ==
  \/ NewPageCall("pins", MaxTime, MaxPageId)
  \/ FetchPageCall("pins", MaxTime, MaxPin)
  \/ UnpinPageCall("pins")
  \/ FlushPageCall
  \/ FlushAllPagesCall(MaxQueue)
  \/ DeletePageCall("pins")
  \/ DiskWorker

Spec == Init /\ [][Next]_vars

(* The buffer pool with callers that write the bytes of pinned pages *)
NextDisk ==
  \/ NewPageCall("bytes", MaxDiskTime, MaxDiskPageId)
  \/ FetchPageCall("bytes", MaxDiskTime, MaxDiskPin)
  \/ UnpinPageCall("bytes")
  \/ FlushPageCall
  \/ FlushAllPagesCall(MaxDiskQueue)
  \/ DeletePageCall("bytes")
  \/ WriteData
  \/ DiskWorker

SpecDisk == InitDisk /\ [][NextDisk]_vars

(* The replacer on its own: LRUKReplacer(ReplacerSize, k_) and callers    *)
(* that pass any frame id up to one past the largest it accepts.  The     *)
(* history keeps every access of a node since it was created.             *)

InitR == Construct(ReplacerSize)

FrameIds == 0 .. (replacer_size_ + 1)

PoolUnchanged ==
  UNCHANGED <<pages_, free_list_, page_table_, next_page_id_, free_ids_,
              disk, queue, acquired, released, ever_dirty, owed, unreported,
              guards, rwlatch_, halt, HashVars>>

RecordAccessCall ==
  \E frame_id \in FrameIds :
    LET res == RecordAccess(Pool.replacer_, frame_id)
    IN /\ current_timestamp_ < MaxAccess
       /\ InstallReplacer(res.r)
       /\ accesses' = IF res.exc # "none" THEN accesses
                      ELSE IF frame_id \in DOMAIN accesses
                        THEN [accesses EXCEPT ![frame_id] =
                                Append(@, res.r.current_timestamp_)]
                        ELSE Emplace(accesses, frame_id,
                                     <<res.r.current_timestamp_>>)
       /\ PoolUnchanged

SetEvictableCall ==
  \E frame_id \in FrameIds, set_evictable \in BOOLEAN :
    /\ InstallReplacer(SetEvictable(Pool.replacer_, frame_id, set_evictable).r)
    /\ UNCHANGED <<accesses, guards, rwlatch_, halt, HashVars>>
    /\ PoolUnchanged

EvictCall ==
  \E order \in Orders(DOMAIN node_store_) :
    LET res == Evict(Pool.replacer_, order)
    IN /\ InstallReplacer(res.r)
       /\ accesses' = IF res.ret THEN Erase(accesses, res.frame_id)
                      ELSE accesses
       /\ PoolUnchanged

RemoveCall ==
  \E frame_id \in FrameIds :
    LET res == Remove(Pool.replacer_, frame_id)
    IN /\ InstallReplacer(res.r)
       /\ accesses' = [x \in DOMAIN res.r.node_store_ |-> accesses[x]]
       /\ PoolUnchanged

NextR ==
  \/ RecordAccessCall
  \/ SetEvictableCall
  \/ EvictCall
  \/ RemoveCall

SpecR == InitR /\ [][NextR]_vars

-----------------------------------------------------------------------------
(* The callers of the page guards.  Each guard object lives in a slot of  *)
(* guards: kind "none" is a slot without an object; pc "RLatch" and       *)
(* "WLatch" are calls of FetchPageRead and FetchPageWrite that have       *)
(* fetched the page and wait for its latch.  The slots belong to any      *)
(* threads: every step that is enabled may be the next one.               *)

InitG == Construct(GuardPoolSize)

Slot(kind, pc, g) == [kind |-> kind, pc |-> pc, guard_ |-> g]

World == [s |-> Pool, l |-> rwlatch_, halt |-> halt, events |-> <<>>]

InstallWorld(w) ==
  /\ Install(w.s)
  /\ rwlatch_' = w.l
  /\ halt' = w.halt
  /\ NoHistory
  /\ UNCHANGED <<accesses, HashVars>>

Owning(g) == g.bpm_ /\ g.page_ # NoFrame

\* a new guard object takes the first slot that has none
FreeSlot(i) ==
  /\ guards[i].kind = "none"
  /\ \A k \in GuardIds : k < i => guards[k].kind # "none"

DropOf(kind, w, g) ==
  CASE kind = "Basic" -> BasicDrop(w, g)
    [] kind = "Read" -> ReadDrop(w, g)
    [] OTHER -> WriteDrop(w, g)

DestroyOf(kind, w, g) ==
  CASE kind = "Basic" -> BasicDestroy(w, g)
    [] kind = "Read" -> ReadDestroy(w, g)
    [] OTHER -> WriteDestroy(w, g)

MoveOf(kind, w, that) ==
  CASE kind = "Basic" -> [w |-> w, this |-> BasicMove(that).this,
                          that |-> BasicMove(that).that]
    [] kind = "Read" -> ReadMove(w, that)
    [] OTHER -> WriteMove(w, that)

AssignOf(kind, w, this, that) ==
  CASE kind = "Basic" -> BasicAssign(w, this, that)
    [] kind = "Read" -> ReadAssign(w, this, that)
    [] OTHER -> WriteAssign(w, this, that)

(* In each call the result of the operation is computed once, as the one  *)
(* element of a set.                                                      *)

NewPageGuardedCall ==
  \E i \in GuardIds, order \in EvictOrders :
    /\ halt = "none"
    /\ FreeSlot(i)
    /\ \E res \in {NewPageGuarded(World, order)} :
         /\ Owning(res.ret) =>
              /\ current_timestamp_ < MaxGuardTime
              /\ free_ids_ # <<>> \/ next_page_id_ < MaxGuardPageId
         /\ InstallWorld(res.w)
         /\ guards' = [guards EXCEPT ![i] = Slot("Basic", "live", res.ret)]

FetchPageBasicCall ==
  \E i \in GuardIds, page_id \in Known, order \in EvictOrders :
    /\ halt = "none"
    /\ FreeSlot(i)
    /\ \E res \in {FetchPageBasic(World, page_id, order)} :
         /\ Owning(res.ret) => current_timestamp_ < MaxGuardTime
         /\ InstallWorld(res.w)
         /\ guards' = [guards EXCEPT ![i] = Slot("Basic", "live", res.ret)]

FetchPageReadCall ==
  \E i \in GuardIds, page_id \in Known, order \in EvictOrders :
    /\ halt = "none"
    /\ FreeSlot(i)
    /\ \E res \in {FetchPagePin(World, page_id, order)} :
         /\ res.page # NoFrame => current_timestamp_ < MaxGuardTime
         /\ InstallWorld(res.w)
         /\ guards' = [guards EXCEPT ![i] =
                         Slot("Read", "RLatch", BasicPageGuard(TRUE, res.page))]

FetchPageReadReturn ==
  \E i \in GuardIds :
    /\ halt = "none"
    /\ guards[i].pc = "RLatch"
    /\ Owning(guards[i].guard_) => CanRLatch(rwlatch_, guards[i].guard_.page_)
    /\ \E res \in {FetchPageReadLatch(World, guards[i].guard_.page_)} :
         /\ InstallWorld(res.w)
         /\ guards' = IF res.w.halt = "none"
                        THEN [guards EXCEPT ![i] = Slot("Read", "live", res.ret)]
                        ELSE guards

FetchPageWriteCall ==
  \E i \in GuardIds, page_id \in Known, order \in EvictOrders :
    /\ halt = "none"
    /\ FreeSlot(i)
    /\ \E res \in {FetchPagePin(World, page_id, order)} :
         /\ res.page # NoFrame => current_timestamp_ < MaxGuardTime
         /\ InstallWorld(res.w)
         /\ guards' = [guards EXCEPT ![i] =
                         Slot("Write", "WLatch", BasicPageGuard(TRUE, res.page))]

FetchPageWriteReturn ==
  \E i \in GuardIds :
    /\ halt = "none"
    /\ guards[i].pc = "WLatch"
    /\ Owning(guards[i].guard_) => CanWLatch(rwlatch_, guards[i].guard_.page_)
    /\ \E res \in {FetchPageWriteLatch(World, guards[i].guard_.page_)} :
         /\ InstallWorld(res.w)
         /\ guards' = IF res.w.halt = "none"
                        THEN [guards EXCEPT ![i] = Slot("Write", "live", res.ret)]
                        ELSE guards

\* a new guard in slot j, move-constructed from the guard in slot i
MoveConstructCall ==
  \E i \in GuardIds, j \in GuardIds :
    /\ halt = "none"
    /\ guards[i].pc = "live"
    /\ FreeSlot(j)
    /\ \E res \in {MoveOf(guards[i].kind, World, guards[i].guard_)} :
         /\ InstallWorld(res.w)
         /\ guards' = [guards EXCEPT
                         ![i].guard_ = res.that,
                         ![j] = Slot(guards[i].kind, "live", res.this)]

\* the guard in slot i is move-assigned to the guard in slot j
MoveAssignCall ==
  \E i \in GuardIds, j \in GuardIds :
    /\ halt = "none"
    /\ i # j
    /\ guards[i].pc = "live"
    /\ guards[j].pc = "live"
    /\ guards[i].kind = guards[j].kind
    /\ \E res \in {AssignOf(guards[j].kind, World, guards[j].guard_,
                            guards[i].guard_)} :
         /\ InstallWorld(res.w)
         /\ guards' = [guards EXCEPT ![i].guard_ = res.that,
                                     ![j].guard_ = res.this]

DropCall ==
  \E i \in GuardIds :
    /\ halt = "none"
    /\ guards[i].pc = "live"
    /\ \E res \in {DropOf(guards[i].kind, World, guards[i].guard_)} :
         /\ InstallWorld(res.w)
         /\ guards' = [guards EXCEPT ![i].guard_ = res.g]

\* the guard in slot i goes out of scope
DestroyCall ==
  \E i \in GuardIds :
    /\ halt = "none"
    /\ guards[i].pc = "live"
    /\ \E res \in {DestroyOf(guards[i].kind, World, guards[i].guard_)} :
         /\ InstallWorld(res.w)
         /\ guards' = IF res.w.halt = "none"
                        THEN [guards EXCEPT ![i] = NoGuard]
                        ELSE guards

\* the guard returned by UpgradeRead takes slot j
UpgradeReadCall ==
  \E i \in GuardIds, j \in GuardIds :
    /\ halt = "none"
    /\ guards[i].kind = "Basic"
    /\ FreeSlot(j)
    /\ CanUpgradeRead(World, guards[i].guard_)
    /\ \E res \in {UpgradeRead(World, guards[i].guard_)} :
         /\ InstallWorld(res.w)
         /\ guards' = IF res.w.halt = "none"
                        THEN [guards EXCEPT
                                ![i].guard_ = res.this,
                                ![j] = Slot("Read", "live", res.temp)]
                        ELSE guards

UpgradeWriteCall ==
  \E i \in GuardIds, j \in GuardIds :
    /\ halt = "none"
    /\ guards[i].kind = "Basic"
    /\ FreeSlot(j)
    /\ CanUpgradeWrite(World, guards[i].guard_)
    /\ \E res \in {UpgradeWrite(World, guards[i].guard_)} :
         /\ InstallWorld(res.w)
         /\ guards' = IF res.w.halt = "none"
                        THEN [guards EXCEPT
                                ![i].guard_ = res.this,
                                ![j] = Slot("Write", "live", res.temp)]
                        ELSE guards

\* the holder of a basic or write guard writes the bytes of its page
GetDataMutCall ==
  \E i \in GuardIds, v \in Data :
    LET g == guards[i].guard_
    IN /\ halt = "none"
       /\ guards[i].pc = "live"
       /\ guards[i].kind \in {"Basic", "Write"}
       /\ Owning(g)
       /\ ~g.is_dirty_
       /\ pages_[g.page_].data_ # v
       /\ guards' = [guards EXCEPT ![i].guard_ = GetDataMut(g)]
       /\ pages_' = [pages_ EXCEPT ![g.page_].data_ = v]
       /\ UNCHANGED <<pool_size_, replacer_size_, free_list_, page_table_,
                      node_store_, curr_size_, current_timestamp_,
                      next_page_id_, free_ids_, disk, queue, acquired,
                      released, ever_dirty, owed, unreported, accesses,
                      rwlatch_, halt, HashVars>>

NextG ==
  \/ NewPageGuardedCall
  \/ FetchPageBasicCall
  \/ FetchPageReadCall
  \/ FetchPageReadReturn
  \/ FetchPageWriteCall
  \/ FetchPageWriteReturn
  \/ MoveConstructCall
  \/ MoveAssignCall
  \/ DropCall
  \/ DestroyCall
  \/ UpgradeReadCall
  \/ UpgradeWriteCall
  \/ GetDataMutCall

SpecG == InitG /\ [][NextG]_vars

-----------------------------------------------------------------------------
(* Pages of the hash index.  A header page is the array of its directory  *)
(* page ids, a directory page has global_depth_, local_depths_ and        *)
(* bucket_page_ids_ over 2^max_depth_ slots, a bucket page is the array   *)
(* of its <<key, value>> pairs.                                           *)

Pow2(n) == 2 ^ n

\* the hash function of the index: the key itself
Hash(key) == key

\* ExtendibleHTableHeaderPage::Init
HeaderInit(max_depth) ==
  [max_depth_ |-> max_depth,
   directory_page_ids_ |-> [i \in 0 .. (Pow2(max_depth) - 1) |->
                              INVALID_PAGE_ID]]

\* ExtendibleHTableHeaderPage::HashToDirectoryIndex: the top max_depth_
\* bits of the 32 bits of the hash
HashToDirectoryIndex(header, hash) ==
  IF header.max_depth_ = 0 THEN 0
  ELSE hash \div Pow2(32 - header.max_depth_)

\* ExtendibleHTableDirectoryPage::Init
DirectoryInit(max_depth) ==
  [max_depth_ |-> max_depth, global_depth_ |-> 0,
   local_depths_ |-> [i \in 0 .. (Pow2(max_depth) - 1) |-> 0],
   bucket_page_ids_ |-> [i \in 0 .. (Pow2(max_depth) - 1) |->
                           INVALID_PAGE_ID]]

\* the low global_depth_ bits of the hash
HashToBucketIndex(dir, hash) == hash % Pow2(dir.global_depth_)

GetLocalDepth(dir, i) == dir.local_depths_[i]

GetBucketPageId(dir, i) == dir.bucket_page_ids_[i]

SetBucketPageId(dir, i, page_id) ==
  [dir EXCEPT !.bucket_page_ids_[i] = page_id]

IncrLocalDepth(dir, i) == [dir EXCEPT !.local_depths_[i] = @ + 1]

DecrLocalDepth(dir, i) == [dir EXCEPT !.local_depths_[i] = @ - 1]

\* i with bit local depth - 1 flipped
GetSplitImageIndex(dir, i) ==
  LET bit == Pow2(dir.local_depths_[i] - 1)
  IN IF (i \div bit) % 2 = 1 THEN i - bit ELSE i + bit

\* the directory doubles, each new slot a copy of its lower counterpart;
\* nothing happens at max_depth_
IncrGlobalDepth(dir) ==
  IF dir.global_depth_ = dir.max_depth_
    THEN dir
    ELSE LET half == Pow2(dir.global_depth_)
             Low(i) == IF i >= half /\ i < 2 * half THEN i - half ELSE i
         IN [dir EXCEPT
               !.global_depth_ = @ + 1,
               !.local_depths_ =
                  [i \in DOMAIN @ |-> dir.local_depths_[Low(i)]],
               !.bucket_page_ids_ =
                  [i \in DOMAIN @ |-> dir.bucket_page_ids_[Low(i)]]]

DecrGlobalDepth(dir) ==
  IF dir.global_depth_ = 0 THEN dir
  ELSE [dir EXCEPT !.global_depth_ = @ - 1]

CanShrink(dir) ==
  /\ dir.global_depth_ > 0
  /\ \A i \in 0 .. (Pow2(dir.global_depth_) - 1) :
       dir.local_depths_[i] < dir.global_depth_

\* ExtendibleHTableBucketPage
BucketKeys(b) == {b[n][1] : n \in DOMAIN b}

IsFull(b, max_size) == Len(b) = max_size

IsEmpty(b) == Len(b) = 0

Lookup(b, key) ==
  IF key \in BucketKeys(b)
    THEN [found |-> TRUE,
          value |-> b[CHOOSE n \in DOMAIN b : b[n][1] = key][2]]
    ELSE [found |-> FALSE, value |-> NoValue]

BucketInsert(b, key, value, max_size) ==
  IF IsFull(b, max_size) \/ key \in BucketKeys(b)
    THEN [b |-> b, ret |-> FALSE]
    ELSE [b |-> Append(b, <<key, value>>), ret |-> TRUE]

BucketRemove(b, key) ==
  IF key \in BucketKeys(b)
    THEN [b |-> SelectSeq(b, LAMBDA e : e[1] # key), ret |-> TRUE]
    ELSE [b |-> b, ret |-> FALSE]

-----------------------------------------------------------------------------
(* DiskExtendibleHashTable: operators on a table record h, the pages of   *)
(* the index as the pool presents them (every fetch succeeds: the pool    *)
(* has a frame for each page of the index) and the next page id of the    *)
(* pool.  ret is the value returned; halt tells how a call that does not  *)
(* return ends.                                                           *)

\* NewPageGuarded: the id of the new page
NewPageId(h) ==
  IF h.free_ids_ # <<>> THEN Head(h.free_ids_) ELSE h.next_page_id_

\* the table once NewPageGuarded has handed out that id
Allocated(h) ==
  IF h.free_ids_ # <<>> THEN [h EXCEPT !.free_ids_ = Tail(@)]
  ELSE [h EXCEPT !.next_page_id_ = @ + 1]

\* DiskExtendibleHashTable::DiskExtendibleHashTable: the header page is the
\* next new page of the pool
DiskExtendibleHashTable(next_page_id, header_max_depth, directory_max_depth, bucket_max_size) ==
  [header_page_id_ |-> next_page_id,
   header_max_depth_ |-> header_max_depth,
   directory_max_depth_ |-> directory_max_depth,
   bucket_max_size_ |-> bucket_max_size,
   header_ |-> <<HeaderInit(header_max_depth)>>,
   directories_ |-> [x \in {} |-> <<>>],
   buckets_ |-> [x \in {} |-> <<>>],
   next_page_id_ |-> next_page_id + 1,
   free_ids_ |-> <<>>]

\* BufferPoolManager::DeletePage of a bucket page, called by a thread
\* whose guards pin the pages in guarded: a page with a pin stays and
\* the call returns false (lines 174-176); otherwise the page leaves the
\* pool and its id is recycled
DeleteBucketPage(h, page_id, guarded) ==
  IF page_id \notin DOMAIN h.buckets_ \/ page_id \in guarded
    THEN h
    ELSE [h EXCEPT !.buckets_ = Erase(@, page_id),
                   !.free_ids_ = Append(@, page_id)]

HashTableGetValue(h, key) ==
  LET hash_value == Hash(key)
      header == h.header_[1]
      dir_id == header.directory_page_ids_[
                  HashToDirectoryIndex(header, hash_value)]
  IN IF dir_id = INVALID_PAGE_ID
       THEN [found |-> FALSE, value |-> NoValue]
       ELSE
         LET dir == h.directories_[dir_id]
             bucket_id == GetBucketPageId(dir,
                                          HashToBucketIndex(dir, hash_value))
         IN IF bucket_id = INVALID_PAGE_ID
              THEN [found |-> FALSE, value |-> NoValue]
              ELSE Lookup(h.buckets_[bucket_id], key)

InsertToNewBucket(h, dir_id, bucket_idx, key, value) ==
  LET new_id == NewPageId(h)
      ins == BucketInsert(<<>>, key, value, h.bucket_max_size_)
  IN [h |-> [Allocated(h) EXCEPT
                      !.buckets_ = Emplace(@, new_id, ins.b),
                      !.directories_[dir_id] =
                         SetBucketPageId(@, bucket_idx, new_id)],
      ret |-> ins.ret, halt |-> "none"]

InsertToNewDirectory(h, directory_idx, hash, key, value) ==
  LET new_dir_id == NewPageId(h)
      dir == DirectoryInit(h.directory_max_depth_)
      h1 == [Allocated(h) EXCEPT
                      !.directories_ = Emplace(@, new_dir_id, dir),
                      !.header_[1].directory_page_ids_[directory_idx] =
                         new_dir_id]
  IN InsertToNewBucket(h1, new_dir_id, HashToBucketIndex(dir, hash), key,
                       value)

UpdateDirectoryMapping(dir, new_bucket_idx, new_bucket_page_id, new_local_depth, local_depth_mask) ==
  SetBucketPageId(dir, new_bucket_idx, new_bucket_page_id)

\* lines 139-158: the entries of the bucket that the directory now sends
\* to the split page move there; an entry sent to a third page fails the
\* assertion of line 156
Redistribute(dir, old, bucket_page, split_id) ==
  LET Page(e) == GetBucketPageId(dir, HashToBucketIndex(dir, Hash(e[1])))
  IN [bucket |-> SelectSeq(old, LAMBDA e : Page(e) # split_id),
      split |-> SelectSeq(old, LAMBDA e : Page(e) = split_id),
      assert |-> \A n \in DOMAIN old :
                   Page(old[n]) \in {split_id, bucket_page}]

\* lines 119-175: the bucket is full and does not hold the key.  The call
\* of Insert at line 173 is made while dir_guard, the write guard of the
\* directory page, is alive: it takes the write latch of a page that the
\* thread has already latched, which is undefined behaviour of the latch
\* (relock: the thread waits for ever, or the lock operation throws a
\* std::system_error that nothing catches).
InsertSplit(h, dir_page, bucket_idx, bucket_page, key, value, relock) ==
  LET hash_value == Hash(key)
      dir0 == h.directories_[dir_page]
      dir1 == IF GetLocalDepth(dir0, bucket_idx) = dir0.global_depth_
                THEN IncrGlobalDepth(dir0) ELSE dir0
  IN IF GetLocalDepth(dir1, bucket_idx) = dir1.global_depth_
       THEN [h |-> [h EXCEPT !.directories_[dir_page] = dir1],
             ret |-> FALSE, halt |-> "none"]
       ELSE
         LET dir2 == IncrLocalDepth(dir1, bucket_idx)
             split_id == NewPageId(h)
             split_idx == GetSplitImageIndex(dir2, bucket_idx)
             dir3 == IncrLocalDepth(dir2, split_idx)
             dir4 == UpdateDirectoryMapping(dir3, split_idx, split_id,
                                            GetLocalDepth(dir3, split_idx),
                                            0)
             moved == Redistribute(dir4, h.buckets_[bucket_page],
                                   bucket_page, split_id)
             insert_page == GetBucketPageId(
                              dir4, HashToBucketIndex(dir4, hash_value))
             sp == IF insert_page = split_id
                     THEN BucketInsert(moved.split, key, value,
                                       h.bucket_max_size_)
                     ELSE [b |-> moved.split, ret |-> FALSE]
             bk == IF insert_page # split_id /\ insert_page = bucket_page
                     THEN BucketInsert(moved.bucket, key, value,
                                       h.bucket_max_size_)
                     ELSE [b |-> moved.bucket, ret |-> FALSE]
             h1 == [Allocated(h) EXCEPT
                             !.directories_[dir_page] = dir4,
                             !.buckets_ =
                                Emplace([@ EXCEPT ![bucket_page] = bk.b],
                                        split_id, sp.b)]
         IN IF GetLocalDepth(dir3, bucket_idx) # GetLocalDepth(dir3, split_idx)
                \/ ~moved.assert
                \/ insert_page \notin {split_id, bucket_page}
              THEN [h |-> h1, ret |-> FALSE, halt |-> "assert"]
              ELSE IF sp.ret \/ bk.ret
                THEN [h |-> h1, ret |-> TRUE, halt |-> "none"]
                ELSE [h |-> h1, ret |-> FALSE, halt |-> relock]

\* DiskExtendibleHashTable::Insert
HashTableInsert(h, key, value, relock) ==
  LET hash_value == Hash(key)
      header == h.header_[1]
      dir_idx == HashToDirectoryIndex(header, hash_value)
      dir_page == header.directory_page_ids_[dir_idx]
  IN IF dir_page = INVALID_PAGE_ID
       THEN InsertToNewDirectory(h, dir_idx, hash_value, key, value)
       ELSE
         LET dir == h.directories_[dir_page]
             bucket_idx == HashToBucketIndex(dir, hash_value)
             bucket_page == GetBucketPageId(dir, bucket_idx)
         IN IF bucket_page = INVALID_PAGE_ID
              THEN InsertToNewBucket(h, dir_page, bucket_idx, key, value)
              ELSE
                LET ins == BucketInsert(h.buckets_[bucket_page], key, value,
                                        h.bucket_max_size_)
                IN IF ins.ret
                     THEN [h |-> [h EXCEPT !.buckets_[bucket_page] = ins.b],
                           ret |-> TRUE, halt |-> "none"]
                     ELSE IF Lookup(h.buckets_[bucket_page], key).found
                       THEN [h |-> h, ret |-> FALSE, halt |-> "none"]
                       ELSE IF ~IsFull(h.buckets_[bucket_page],
                                       h.bucket_max_size_)
                         THEN [h |-> h, ret |-> FALSE, halt |-> "assert"]
                         ELSE InsertSplit(h, dir_page, bucket_idx,
                                          bucket_page, key, value, relock)

\* lines 245-274 of Remove: one round of the loop.  m is the state of the
\* loop: the table, bucket_idx, bucket_page, indexes, and whether the loop
\* goes on.  The split page is latched while the bucket page is: if they
\* are the same page the latch is taken twice (relock).
RECURSIVE Coalesce(_, _, _)
Coalesce(m, dir_page, relock) ==
  LET dir == m.h.directories_[dir_page]
  IN IF GetLocalDepth(dir, m.bucket_idx) = 0
       THEN m
       ELSE
         LET split_idx == GetSplitImageIndex(dir, m.bucket_idx)
             split_page == GetBucketPageId(dir, split_idx)
         IN IF GetLocalDepth(dir, m.bucket_idx) # GetLocalDepth(dir, split_idx)
              THEN m
              ELSE IF split_page = m.bucket_page
                THEN [m EXCEPT !.halt = relock]
                ELSE IF /\ ~IsEmpty(m.h.buckets_[m.bucket_page])
                        /\ ~IsEmpty(m.h.buckets_[split_page])
                  THEN m
                  ELSE
                    LET indexes == Append(m.indexes, split_idx)
                        empty == IsEmpty(m.h.buckets_[m.bucket_page])
                        set_page == IF empty THEN split_page
                                    ELSE m.bucket_page
                        Listed(i) == {n \in DOMAIN indexes : indexes[n] = i}
                        dir1 == [dir EXCEPT
                                   !.local_depths_ =
                                      [i \in DOMAIN @ |->
                                         @[i] - Cardinality(Listed(i))],
                                   !.bucket_page_ids_ =
                                      [i \in DOMAIN @ |->
                                         IF Listed(i) # {} THEN set_page
                                         ELSE @[i]]]
                        h1 == DeleteBucketPage(
                                [m.h EXCEPT !.directories_[dir_page] = dir1],
                                IF empty THEN m.bucket_page ELSE split_page,
                                {dir_page, m.bucket_page, split_page})
                    IN Coalesce([h |-> h1,
                                 bucket_idx |-> IF empty THEN split_idx
                                                ELSE m.bucket_idx,
                                 bucket_page |-> set_page,
                                 indexes |-> indexes,
                                 halt |-> "none"],
                                dir_page, relock)

\* lines 276-278
RECURSIVE Shrink(_)
Shrink(dir) == IF CanShrink(dir) THEN Shrink(DecrGlobalDepth(dir)) ELSE dir

\* DiskExtendibleHashTable::Remove
HashTableRemove(h, key, relock) ==
  LET hash_value == Hash(key)
      header == h.header_[1]
      dir_idx == HashToDirectoryIndex(header, hash_value)
      dir_page == header.directory_page_ids_[dir_idx]
  IN IF dir_page = INVALID_PAGE_ID
       THEN [h |-> h, ret |-> FALSE, halt |-> "none"]
       ELSE
         LET dir == h.directories_[dir_page]
             bucket_idx == HashToBucketIndex(dir, hash_value)
             bucket_page == GetBucketPageId(dir, bucket_idx)
         IN IF bucket_page = INVALID_PAGE_ID
              THEN [h |-> h, ret |-> FALSE, halt |-> "none"]
              ELSE
                LET rem == BucketRemove(h.buckets_[bucket_page], key)
                IN IF ~rem.ret
                     THEN [h |-> h, ret |-> FALSE, halt |-> "none"]
                     ELSE
                       LET m == Coalesce(
                                  [h |-> [h EXCEPT
                                            !.buckets_[bucket_page] = rem.b],
                                   bucket_idx |-> bucket_idx,
                                   bucket_page |-> bucket_page,
                                   indexes |-> <<bucket_idx>>,
                                   halt |-> "none"],
                                  dir_page, relock)
                       IN IF m.halt # "none"
                            THEN [h |-> m.h, ret |-> FALSE, halt |-> m.halt]
                            ELSE [h |-> [m.h EXCEPT !.directories_[dir_page] =
                                                       Shrink(@)],
                                  ret |-> TRUE, halt |-> "none"]

-----------------------------------------------------------------------------
(* The callers of the hash index: one thread that constructs the index    *)
(* and then calls Insert, Remove and GetValue, each call running to its   *)
(* end before the next.  The pool has a frame for every page of the       *)
(* index.                                                                 *)

InitH == Construct(PoolSize)

Relocks == {"deadlock", "system_error"}

HashUnchanged ==
  UNCHANGED <<pool_size_, replacer_size_, pages_, free_list_, page_table_,
              node_store_, curr_size_, current_timestamp_, next_page_id_,
              free_ids_, disk, queue, acquired, released, ever_dirty, owed,
              unreported, accesses, guards, rwlatch_, threads>>

HashTableConstruct ==
  /\ htable = NoTable
  /\ htable' = DiskExtendibleHashTable(next_page_id_, HeaderMaxDepth,
                                       DirectoryMaxDepth, BucketMaxSize)
  /\ UNCHANGED <<halt, stored, inserted_keys, result>>
  /\ HashUnchanged

HashTableInsertCall ==
  \E key \in Keys, value \in Values, relock \in Relocks :
    /\ htable # NoTable
    /\ halt = "none"
    /\ htable.next_page_id_ < MaxHashPageId
    /\ \E res \in {HashTableInsert(htable, key, value, relock)} :
         /\ htable' = res.h
         /\ halt' = res.halt
         /\ stored' = IF res.halt = "none" /\ res.ret
                        THEN [stored EXCEPT ![key] = value]
                        ELSE stored
    /\ inserted_keys' = IF inserted_keys = Mixed \/ key \in inserted_keys
                          THEN Mixed
                          ELSE inserted_keys \cup {key}
    /\ UNCHANGED result
    /\ HashUnchanged

HashTableRemoveCall ==
  \E key \in Keys, relock \in Relocks :
    /\ htable # NoTable
    /\ halt = "none"
    /\ \E res \in {HashTableRemove(htable, key, relock)} :
         /\ htable' = res.h
         /\ halt' = res.halt
         /\ stored' = IF res.halt = "none" /\ res.ret
                        THEN [stored EXCEPT ![key] = NoValue]
                        ELSE stored
    /\ inserted_keys' = Mixed
    /\ UNCHANGED result
    /\ HashUnchanged

HashTableGetValueCall ==
  \E key \in Keys :
    /\ htable # NoTable
    /\ halt = "none"
    /\ result' = HashTableGetValue(htable, key)
    /\ UNCHANGED <<htable, halt, stored, inserted_keys>>
    /\ HashUnchanged

NextH ==
  \/ HashTableConstruct
  \/ HashTableInsertCall
  \/ HashTableRemoveCall
  \/ HashTableGetValueCall

SpecH == InitH /\ [][NextH]_vars

(* The same caller and an index whose directories stop at a small depth,  *)
(* so that keys with equal low bits meet in a bucket that cannot split.   *)

HashTableConstructSmall ==
  /\ htable = NoTable
  /\ htable' = DiskExtendibleHashTable(next_page_id_, HeaderMaxDepth,
                                       SmallDirectoryMaxDepth, BucketMaxSize)
  /\ UNCHANGED <<halt, stored, inserted_keys, result>>
  /\ HashUnchanged

NextHSmall ==
  \/ HashTableConstructSmall
  \/ HashTableInsertCall
  \/ HashTableRemoveCall
  \/ HashTableGetValueCall

SpecHSmall == InitH /\ [][NextHSmall]_vars

-----------------------------------------------------------------------------
(* Threads that call the hash index at the same time.  A call goes        *)
(* through the page fetches of the source one by one; what it does        *)
(* between two fetches is one step.  Each thread has the guards of its    *)
(* call, oldest first, and the local variables dir_page and bucket_page.  *)
(* The pages of the index are the first pages of a pool that has a frame  *)
(* for each of them, page p in frame p, so rwlatch_[p] is the latch of    *)
(* page p.                                                                *)

InitT == Construct(ThreadPoolSize)

\* a guard of a call: the page and the latch it holds on it ("R", "W", or
\* "none" for a BasicPageGuard)
Guard(page, latch) == [page |-> page, latch |-> latch]

\* FetchPageRead for GetValue, and for the header page in Remove;
\* FetchPageWrite otherwise
LatchMode(op, pc) ==
  IF op = "GetValue" \/ (op = "Remove" /\ pc = "FetchHeader") THEN "R"
  ELSE "W"

\* the page that the fetch at pc asks for
Wanted(th) ==
  CASE th.pc = "FetchHeader" -> htable.header_page_id_
    [] th.pc = "FetchDirectory" -> th.dir_page
    [] th.pc = "FetchBucket" -> th.bucket_page
    [] th.pc = "FetchSplit" -> th.bucket_page
    [] OTHER -> INVALID_PAGE_ID

Fetching(th) ==
  th.pc \in {"FetchHeader", "FetchDirectory", "FetchBucket", "FetchSplit"}

CanLatch(l, page, mode) ==
  IF mode = "R" THEN CanRLatch(l, page) ELSE CanWLatch(l, page)

Latch(l, page, mode) ==
  IF mode = "R" THEN RLatch(l, page) ELSE WLatch(l, page)

\* Drop of one guard
Unlatch(l, g) ==
  IF g.latch = "R" THEN RUnlatch(l, g.page)
  ELSE IF g.latch = "W" THEN WUnlatch(l, g.page)
  ELSE l

\* the destructors of the guards of a call that returns
RECURSIVE ReleaseAll(_, _)
ReleaseAll(l, gs) ==
  IF gs = <<>> THEN l
  ELSE ReleaseAll(Unlatch(l, gs[Len(gs)]), SubSeq(gs, 1, Len(gs) - 1))

\* the pages on which the thread holds a latch
Latched(th) ==
  {th.guards_[n].page : n \in {m \in DOMAIN th.guards_ :
                                 th.guards_[m].latch # "none"}}

ThreadUnchanged ==
  UNCHANGED <<pool_size_, replacer_size_, pages_, free_list_, page_table_,
              node_store_, curr_size_, current_timestamp_, next_page_id_,
              free_ids_, disk, queue, acquired, released, ever_dirty, owed,
              unreported, accesses, guards, stored, inserted_keys, result>>

\* the call returns: every guard of the call is destroyed
Return(t) ==
  /\ rwlatch_' = ReleaseAll(rwlatch_, threads[t].guards_)
  /\ threads' = [threads EXCEPT ![t] = Idle]

\* a thread calls GetValue, Insert or Remove
Call(t) ==
  \E op \in {"GetValue", "Insert", "Remove"}, key \in ThreadKeys :
    /\ htable # NoTable
    /\ halt = "none"
    /\ threads[t].pc = "idle"
    /\ op = "Insert" => htable.next_page_id_ < MaxThreadPageId
    /\ threads' = [threads EXCEPT ![t] =
                     [Idle EXCEPT !.op = op, !.key = key,
                                  !.pc = "FetchHeader"]]
    /\ UNCHANGED <<htable, halt, rwlatch_>>
    /\ ThreadUnchanged

\* FetchPageRead(header_page_id_) or FetchPageWrite(header_page_id_)
\* returns.  In a call of Insert made by Insert (line 173) the guards of
\* the calling Insert are still there.
FetchHeader(t) ==
  LET th == threads[t]
      mode == LatchMode(th.op, th.pc)
      page == htable.header_page_id_
  IN /\ halt = "none"
     /\ th.pc = "FetchHeader"
     /\ CanLatch(rwlatch_, page, mode)
     /\ rwlatch_' = Latch(rwlatch_, page, mode)
     /\ threads' = [threads EXCEPT ![t].pc = "Header",
                                   ![t].guards_ = Append(@, Guard(page, mode))]
     /\ UNCHANGED <<htable, halt>>
     /\ ThreadUnchanged

\* the guards of the call but the guard of the page
Without(gs, page) == SelectSeq(gs, LAMBDA g : g.page # page)

\* with the header latched: the directory page id is read.  GetValue and
\* Remove return false if there is none and drop the header guard
\* otherwise (lines 60-63, 221-226); Insert calls InsertToNewDirectory if
\* there is none (lines 91-94).
Header(t) ==
  LET th == threads[t]
      header == htable.header_[1]
      dir_page == header.directory_page_ids_[
                    HashToDirectoryIndex(header, Hash(th.key))]
  IN /\ halt = "none"
     /\ th.pc = "Header"
     /\ IF dir_page = INVALID_PAGE_ID
          THEN /\ Return(t)
               /\ htable' = IF th.op = "Insert"
                              THEN HashTableInsert(htable, th.key, th.value,
                                                   "again").h
                              ELSE htable
          ELSE /\ htable' = htable
               /\ IF th.op = "Insert"
                    THEN /\ rwlatch_' = rwlatch_
                         /\ threads' = [threads EXCEPT
                                          ![t].pc = "FetchDirectory",
                                          ![t].dir_page = dir_page]
                    ELSE /\ rwlatch_' =
                              Unlatch(rwlatch_,
                                      Guard(htable.header_page_id_, "R"))
                         /\ threads' = [threads EXCEPT
                                          ![t].pc = "FetchDirectory",
                                          ![t].dir_page = dir_page,
                                          ![t].guards_ =
                                             Without(@,
                                                     htable.header_page_id_)]
     /\ UNCHANGED halt
     /\ ThreadUnchanged

\* FetchPageRead(dir_id) or FetchPageWrite(dir_page) returns; Insert then
\* drops its header guard (line 98)
FetchDirectory(t) ==
  LET th == threads[t]
      mode == LatchMode(th.op, th.pc)
      l1 == Latch(rwlatch_, th.dir_page, mode)
  IN /\ halt = "none"
     /\ th.pc = "FetchDirectory"
     /\ CanLatch(rwlatch_, th.dir_page, mode)
     /\ rwlatch_' = IF th.op = "Insert"
                      THEN Unlatch(l1, Guard(htable.header_page_id_, "W"))
                      ELSE l1
     /\ threads' = [threads EXCEPT
                      ![t].pc = "Directory",
                      ![t].guards_ =
                         Append(IF th.op = "Insert"
                                  THEN Without(@, htable.header_page_id_)
                                  ELSE @,
                                Guard(th.dir_page, mode))]
     /\ UNCHANGED <<htable, halt>>
     /\ ThreadUnchanged

\* with the directory latched: the bucket page id is read.  GetValue and
\* Remove return false if there is none (lines 67-69, 231-233); Insert
\* calls InsertToNewBucket (lines 102-104).
Directory(t) ==
  LET th == threads[t]
      dir == htable.directories_[th.dir_page]
      bucket_page == GetBucketPageId(dir, HashToBucketIndex(dir, Hash(th.key)))
  IN /\ halt = "none"
     /\ th.pc = "Directory"
     /\ IF bucket_page = INVALID_PAGE_ID
          THEN /\ Return(t)
               /\ htable' = IF th.op = "Insert"
                              THEN HashTableInsert(htable, th.key, th.value,
                                                   "again").h
                              ELSE htable
          ELSE /\ htable' = htable
               /\ rwlatch_' = rwlatch_
               /\ threads' = [threads EXCEPT ![t].pc = "FetchBucket",
                                             ![t].bucket_page = bucket_page]
     /\ UNCHANGED halt
     /\ ThreadUnchanged

\* FetchPageRead(bucket_id) or FetchPageWrite(bucket_page) returns
FetchBucket(t) ==
  LET th == threads[t]
      mode == LatchMode(th.op, th.pc)
  IN /\ halt = "none"
     /\ th.pc = "FetchBucket"
     /\ CanLatch(rwlatch_, th.bucket_page, mode)
     /\ rwlatch_' = Latch(rwlatch_, th.bucket_page, mode)
     /\ threads' = [threads EXCEPT
                      ![t].pc = "Bucket",
                      ![t].guards_ = Append(@, Guard(th.bucket_page, mode))]
     /\ UNCHANGED <<htable, halt>>
     /\ ThreadUnchanged

\* with the bucket latched, GetValue: lines 73-78
BucketGetValue(t) ==
  /\ halt = "none"
  /\ threads[t].pc = "Bucket"
  /\ threads[t].op = "GetValue"
  /\ Return(t)
  /\ UNCHANGED <<htable, halt>>
  /\ ThreadUnchanged

\* with the bucket latched, Insert: lines 107-175.  The call returns, or
\* an assertion fails, or it calls Insert again (line 173) with its
\* guards alive: dir_guard, bucket_guard and the guard of the split page.
BucketInsert_(t) ==
  LET th == threads[t]
  IN /\ halt = "none"
     /\ th.pc = "Bucket"
     /\ th.op = "Insert"
     /\ \E res \in {HashTableInsert(htable, th.key, th.value, "again")} :
          /\ htable' = res.h
          /\ IF res.halt = "again"
               THEN /\ halt' = halt
                    /\ rwlatch_' = rwlatch_
                    /\ threads' = [threads EXCEPT
                                     ![t].pc = "FetchHeader",
                                     ![t].guards_ =
                                        Append(@, Guard(NewPageId(htable),
                                                        "none"))]
               ELSE IF res.halt = "assert"
                 THEN /\ halt' = "assert"
                      /\ UNCHANGED <<rwlatch_, threads>>
                 ELSE /\ halt' = halt
                      /\ Return(t)
     /\ ThreadUnchanged

\* with the bucket latched, Remove: lines 236-279.  The call returns, or
\* it fetches as split page the bucket page that it has latched (line 251).
BucketRemove_(t) ==
  LET th == threads[t]
  IN /\ halt = "none"
     /\ th.pc = "Bucket"
     /\ th.op = "Remove"
     /\ \E res \in {HashTableRemove(htable, th.key, "again")} :
          /\ htable' = res.h
          /\ IF res.halt = "again"
               THEN /\ rwlatch_' = rwlatch_
                    /\ threads' = [threads EXCEPT ![t].pc = "FetchSplit"]
               ELSE Return(t)
     /\ UNCHANGED halt
     /\ ThreadUnchanged

\* the thread asks for the write latch of a page that it has latched:
\* undefined behaviour of the latch.  The thread waits for ever (no step),
\* or the lock operation throws std::system_error, which nothing catches.
Relock(t) ==
  /\ halt = "none"
  /\ Fetching(threads[t])
  /\ Wanted(threads[t]) \in Latched(threads[t])
  /\ halt' = "system_error"
  /\ UNCHANGED <<htable, rwlatch_, threads>>
  /\ ThreadUnchanged

Step(t) ==
  \/ Call(t)
  \/ FetchHeader(t)
  \/ Header(t)
  \/ FetchDirectory(t)
  \/ Directory(t)
  \/ FetchBucket(t)
  \/ BucketGetValue(t)
  \/ BucketInsert_(t)
  \/ BucketRemove_(t)
  \/ Relock(t)

NextT ==
  \/ HashTableConstructSmall
  \/ \E t \in ThreadIds : Step(t)

SpecT == InitT /\ [][NextT]_vars


-----------------------------------------------------------------------------
(* Vocabulary of the claims *)

Range(f) == {f[x] : x \in DOMAIN f}

\* the frame holds a page
Resident(f) == pages_[f].page_id_ # INVALID_PAGE_ID

\* the replacer tracks the frame and marks it evictable
Evictable(f) == f \in DOMAIN node_store_ /\ GetEvictable(node_store_[f])

Unpinned0 == {f \in Frames : Resident(f) /\ pages_[f].pin_count_ = 0}

-----------------------------------------------------------------------------
\* C1: in every reachable state a frame that holds a page is evictable in
\* the replacer iff its pin count is 0, Size() is the number of such frames
\* with pin count 0, and the victim NewPage or a FetchPage miss picks is
\* never pinned.
C1_EvictableIffUnpinned ==
  /\ \A f \in Frames : Resident(f) => (Evictable(f) <=> pages_[f].pin_count_ = 0)
  /\ Size(Pool.replacer_) = Cardinality(Unpinned0)
  /\ \A order \in EvictOrders :
       /\ LET res == NewPage(Pool, order)
          IN (res.ret /\ free_list_ = <<>>) => pages_[res.fit].pin_count_ = 0
       /\ \A page_id \in Known \ DOMAIN page_table_ :
            LET res == FetchPage(Pool, page_id, order)
            IN (res.ret /\ free_list_ = <<>>) => pages_[res.fit].pin_count_ = 0

\* a full pool in which a pinned frame sits beside an unpinned one, which
\* the next NewPage evicts
C1_Witness ==
  /\ free_list_ = <<>>
  /\ \E f, g \in Frames :
       /\ pages_[f].pin_count_ > 0 /\ ~Evictable(f)
       /\ pages_[g].pin_count_ = 0 /\ Evictable(g)
       /\ \A order \in EvictOrders : NewPage(Pool, order).fit = g

\* C2: every frame is in exactly one of the free list and the image of the
\* page table, the page table maps distinct page ids to distinct frames,
\* and no page id is held by two frames.
C2_FramePartition ==
  /\ \A f \in Frames : (f \in Range(free_list_)) # (f \in Range(page_table_))
  /\ \A p, q \in DOMAIN page_table_ : page_table_[p] = page_table_[q] => p = q
  /\ \A f, g \in Frames :
       (Resident(f) /\ pages_[f].page_id_ = pages_[g].page_id_) => f = g
  /\ \A p \in DOMAIN page_table_ : pages_[page_table_[p]].page_id_ = p

\* C3: the pin count of a frame that holds a page is the number of NewPage
\* and FetchPage calls that returned it during this residency minus the
\* number of UnpinPage calls on it that returned true.
C3_PinCountIsBalance ==
  \A f \in Frames : Resident(f) => pages_[f].pin_count_ = acquired[f] - released[f]

\* a frame reached through the eviction path, fetched again and unpinned
C3_Witness ==
  \E f \in Frames :
    /\ Resident(f) /\ acquired[f] = 2 /\ released[f] = 1
    /\ pages_[f].pin_count_ = 1
    /\ free_list_ = <<>> /\ current_timestamp_ > pool_size_ + 1

\* the frame NewPage or a FetchPage miss would evict in this state, and the
\* results of those calls
Misses == Known \ DOMAIN page_table_

EvictingCalls ==
  IF free_list_ # <<>> THEN {}
  ELSE {NewPage(Pool, order) : order \in EvictOrders}
       \cup {FetchPage(Pool, p, order) : p \in Misses, order \in EvictOrders}

\* C4: when NewPage or a FetchPage miss evicts a frame whose page was
\* unpinned with is_dirty = true during this residency, the disk holds the
\* page's bytes when the call returns; and a FetchPage of a page that left
\* that way reads the bytes it left with.
C4_DirtyVictimWrittenBack ==
  /\ \A res \in EvictingCalls :
       (res.ret /\ ever_dirty[res.fit]) =>
          res.s.disk[res.victim] = pages_[res.fit].data_
  /\ \A p \in Misses : \A order \in EvictOrders :
       LET res == FetchPage(Pool, p, order)
       IN (res.ret /\ owed[p] # NoData) =>
            res.s.pages_[res.fit].data_ = owed[p]

\* C5: when FlushAllPages returns the disk holds, for every page of the
\* page table, the bytes its frame had at the call.
C5_FlushAllPagesCompletes ==
  \A order \in Orders(DOMAIN page_table_) :
    LET s == FlushAllPages(Pool, order)
    IN \A p \in DOMAIN page_table_ :
         s.disk[p] = pages_[page_table_[p]].data_

\* C6: FlushPage(p) of a page in the page table returns true with the
\* frame's bytes on disk, no write pending and the dirty flag clear,
\* whatever the flag was; of any other page it returns false and changes
\* nothing; pin counts, page table and replacer stay as they were.
C6_FlushPage ==
  \A p \in Known :
    LET res == FlushPage(Pool, p)
    IN /\ [f \in Frames |-> res.s.pages_[f].pin_count_]
            = [f \in Frames |-> pages_[f].pin_count_]
       /\ res.s.page_table_ = page_table_
       /\ res.s.replacer_ = Pool.replacer_
       /\ IF p \in DOMAIN page_table_
            THEN /\ res.ret
                 /\ res.s.disk[p] = pages_[page_table_[p]].data_
                 /\ res.s.pages_[page_table_[p]].data_
                      = pages_[page_table_[p]].data_
                 /\ ~res.s.pages_[page_table_[p]].is_dirty_
                 /\ res.s.queue = <<>>
            ELSE ~res.ret /\ res.s = Pool

\* a clean page whose bytes differ from the disk's, beside a page that is
\* not resident, with a write of FlushAllPages still pending
C6_Witness ==
  /\ queue # <<>>
  /\ Misses # {}
  /\ \E p \in DOMAIN page_table_ :
       /\ ~pages_[page_table_[p]].is_dirty_
       /\ pages_[page_table_[p]].data_ # disk[p]
       /\ pages_[page_table_[p]].pin_count_ > 0
       /\ FlushPage(Pool, p).s.disk[p] = pages_[page_table_[p]].data_

\* C7: NewPage fails exactly when the free list is empty and every frame is
\* pinned, no frame then being evictable, and leaves the pool as it was; a
\* NewPage that succeeds returns a page with pin count 1, clean, not
\* evictable, in the page table, and the page it evicted is no longer in
\* the page table.
C7_NewPage ==
  \A order \in EvictOrders :
    LET res == NewPage(Pool, order)
    IN /\ ~res.ret <=> /\ free_list_ = <<>>
                       /\ \A f \in Frames : pages_[f].pin_count_ > 0
       /\ ~res.ret => /\ \A f \in Frames : ~Evictable(f)
                      /\ res.s = Pool
       /\ res.ret =>
            /\ res.s.pages_[res.fit].page_id_ = res.page_id
            /\ res.s.pages_[res.fit].pin_count_ = 1
            /\ ~res.s.pages_[res.fit].is_dirty_
            /\ ~GetEvictable(res.s.replacer_.node_store_[res.fit])
            /\ res.s.page_table_[res.page_id] = res.fit
            /\ res.victim # INVALID_PAGE_ID =>
                 res.victim \notin DOMAIN res.s.page_table_

\* C8: UnpinPage of a page that is not in the page table, or whose pin
\* count is 0, returns false and changes nothing; any other UnpinPage
\* returns true and takes exactly one pin off that frame and none off the
\* others; no pin count is negative.
C8_UnpinPage ==
  /\ \A f \in Frames : pages_[f].pin_count_ >= 0
  /\ \A p \in Known, d \in BOOLEAN :
       LET res == UnpinPage(Pool, p, d)
       IN IF p \notin DOMAIN page_table_
             \/ pages_[page_table_[p]].pin_count_ = 0
            THEN ~res.ret /\ res.s = Pool
            ELSE /\ res.ret
                 /\ \A f \in Frames :
                      res.s.pages_[f].pin_count_ =
                        IF f = page_table_[p] THEN pages_[f].pin_count_ - 1
                        ELSE pages_[f].pin_count_

\* a page with two pins, a resident page with none and a page that is not
\* resident
C8_Witness ==
  /\ \E p \in DOMAIN page_table_ :
       /\ pages_[page_table_[p]].pin_count_ = 2
       /\ UnpinPage(Pool, p, FALSE).s.pages_[page_table_[p]].pin_count_ = 1
  /\ \E p \in DOMAIN page_table_ :
       /\ pages_[page_table_[p]].pin_count_ = 0
       /\ ~UnpinPage(Pool, p, TRUE).ret
  /\ Misses # {}

\* C9: DeletePage never raises; of a page that is not in the page table it
\* returns true and changes nothing; of a pinned page it returns false and
\* changes nothing; of any other page it returns true with the page out of
\* the page table, its frame zeroed, clean, without page id and last in the
\* free list, the frame's node out of the replacer and the page id last in
\* the recycled ids; AllocatePage hands out the oldest recycled id before
\* any fresh one.
C9_DeletePage ==
  /\ \A p \in Known :
       LET res == DeletePage(Pool, p)
           fit == page_table_[p]
       IN /\ res.exc = "none"
          /\ p \notin DOMAIN page_table_ => (res.ret /\ res.s = Pool)
          /\ (p \in DOMAIN page_table_ /\ pages_[fit].pin_count_ > 0) =>
               (~res.ret /\ res.s = Pool)
          /\ (p \in DOMAIN page_table_ /\ pages_[fit].pin_count_ = 0) =>
               /\ res.ret
               /\ p \notin DOMAIN res.s.page_table_
               /\ res.s.pages_[fit] =
                    [page_id_ |-> INVALID_PAGE_ID, pin_count_ |-> 0,
                     is_dirty_ |-> FALSE, data_ |-> 0]
               /\ res.s.free_list_ = Append(free_list_, fit)
               /\ fit \notin DOMAIN res.s.replacer_.node_store_
               /\ Size(res.s.replacer_) = Size(Pool.replacer_) - 1
               /\ res.s.free_ids_ = Append(free_ids_, p)
               /\ AllocatePage(res.s).id = Head(res.s.free_ids_)
               /\ AllocatePage(res.s).s.next_page_id_ = next_page_id_
  /\ free_ids_ = <<>> => /\ AllocatePage(Pool).id = next_page_id_
                         /\ AllocatePage(Pool).s.next_page_id_
                              = next_page_id_ + 1

\* a dirty, unpinned page with bytes of its own beside a pinned page and a
\* page that is not resident, an id already waiting to be recycled
C9_Witness ==
  /\ free_ids_ # <<>>
  /\ Misses # {}
  /\ \E p, q \in DOMAIN page_table_ :
       /\ pages_[page_table_[p]].pin_count_ = 0
       /\ pages_[page_table_[p]].is_dirty_
       /\ pages_[page_table_[p]].data_ # 0
       /\ DeletePage(Pool, p).s.free_ids_ = Append(free_ids_, p)
       /\ pages_[page_table_[q]].pin_count_ > 0
       /\ ~DeletePage(Pool, q).ret

\* the evictable frames, those of them with fewer than k accesses, and the
\* k-th most recent access of a frame, all from the history
EvictableFrames ==
  {f \in DOMAIN node_store_ : GetEvictable(node_store_[f])}

FewerThanK == {f \in EvictableFrames : Len(accesses[f]) < k_}

KthRecent(f) == accesses[f][Len(accesses[f]) - k_ + 1]

LargestKDistance(f) ==
  /\ f \in EvictableFrames
  /\ IF FewerThanK # {}
       THEN /\ f \in FewerThanK
            /\ \A g \in FewerThanK : accesses[f][1] <= accesses[g][1]
       ELSE \A g \in EvictableFrames : KthRecent(f) <= KthRecent(g)

\* C10: whatever the iteration order of the node store, Evict succeeds iff
\* some frame is evictable, and then returns and forgets the evictable frame
\* of largest backward k-distance: the one with the oldest first access
\* among those with fewer than k accesses if there is one, else the one
\* with the oldest k-th most recent access.
C10_EvictLargestKDistance ==
  \A order \in Orders(DOMAIN node_store_) :
    LET res == Evict(Pool.replacer_, order)
    IN /\ res.ret <=> EvictableFrames # {}
       /\ res.ret =>
            /\ LargestKDistance(res.frame_id)
            /\ res.frame_id \notin DOMAIN res.r.node_store_
            /\ Size(res.r) = Cardinality(EvictableFrames) - 1

\* accesses to frames 1, 2, 3, 1, 2 at times 1 to 5, all three evictable:
\* Evict returns 3 in every iteration order
C10_Witness ==
  /\ DOMAIN node_store_ = {1, 2, 3}
  /\ accesses = (1 :> <<1, 4>> @@ 2 :> <<2, 5>> @@ 3 :> <<3>>)
  /\ EvictableFrames = {1, 2, 3}
  /\ \A order \in Orders(DOMAIN node_store_) :
       Evict(Pool.replacer_, order).frame_id = 3

\* C11: Size() is the number of tracked nodes that are evictable; in every
\* iteration order Evict fails, changing nothing, iff Size() is 0, and
\* otherwise returns a tracked, evictable frame, erases exactly that node,
\* takes 1 off Size(), and a later access to the frame starts a new history.
C11_SizeCountsEvictable ==
  /\ Size(Pool.replacer_) = Cardinality(EvictableFrames)
  /\ \A order \in Orders(DOMAIN node_store_) :
       LET res == Evict(Pool.replacer_, order)
       IN /\ ~res.ret <=> Size(Pool.replacer_) = 0
          /\ ~res.ret => res.r = Pool.replacer_
          /\ res.ret =>
               /\ res.frame_id \in EvictableFrames
               /\ res.r.node_store_ = Erase(node_store_, res.frame_id)
               /\ Size(res.r) = Size(Pool.replacer_) - 1
               /\ LET again == RecordAccess(res.r, res.frame_id).r
                  IN again.node_store_[res.frame_id] =
                       [history |-> <<again.current_timestamp_>>,
                        is_evictable |-> FALSE]

\* two evictable nodes, one of them accessed twice, beside a node that is
\* not evictable
C11_Witness ==
  /\ Size(Pool.replacer_) = 2
  /\ \E f \in EvictableFrames : GetK(node_store_[f]) = 2
  /\ \E g \in DOMAIN node_store_ : ~GetEvictable(node_store_[g])
  /\ \A order \in Orders(DOMAIN node_store_) :
       Size(Evict(Pool.replacer_, order).r) = 1

\* C12: RecordAccess of a frame id of replacer_size_ or more fails with
\* InvalidFrame and creates no node, and the replacer never tracks more than
\* replacer_size_ frames.
C12_RecordAccessRange ==
  /\ \A frame_id \in FrameIds :
       frame_id >= replacer_size_ =>
         /\ RecordAccess(Pool.replacer_, frame_id).exc = "InvalidFrame"
         /\ RecordAccess(Pool.replacer_, frame_id).r.node_store_ = node_store_
  /\ Cardinality(DOMAIN node_store_) <= replacer_size_

\* C13: SetEvictable of a tracked frame raises nothing, sets the flag,
\* leaves every history and every other node alone, moves Size() by one
\* exactly when the flag changes, and changes nothing when repeated; of an
\* untracked frame it fails with UnknownFrame and changes nothing.
C13_SetEvictable ==
  \A frame_id \in FrameIds, set_evictable \in BOOLEAN :
    LET res == SetEvictable(Pool.replacer_, frame_id, set_evictable)
    IN IF frame_id \in DOMAIN node_store_
         THEN /\ res.exc = "none"
              /\ res.r.node_store_ =
                   [node_store_ EXCEPT ![frame_id].is_evictable = set_evictable]
              /\ res.r.current_timestamp_ = current_timestamp_
              /\ Size(res.r) - Size(Pool.replacer_) =
                   IF GetEvictable(node_store_[frame_id]) = set_evictable THEN 0
                   ELSE IF set_evictable THEN 1 ELSE 0 - 1
              /\ SetEvictable(res.r, frame_id, set_evictable).r = res.r
         ELSE res.exc = "UnknownFrame" /\ res.r = Pool.replacer_

\* a node that is not evictable, which SetEvictable(true) twice counts once,
\* beside an evictable node and a frame that is not tracked
C13_Witness ==
  /\ \E f \in DOMAIN node_store_ :
       /\ ~GetEvictable(node_store_[f])
       /\ Size(SetEvictable(SetEvictable(Pool.replacer_, f, TRUE).r, f, TRUE).r)
            = Size(Pool.replacer_) + 1
  /\ EvictableFrames # {}
  /\ \E h \in 0 .. (replacer_size_ - 1) : h \notin DOMAIN node_store_

\* C14: Remove of an untracked frame raises nothing and changes nothing; of
\* a tracked frame that is not evictable it fails with NonEvictable and
\* changes nothing; of an evictable frame it erases exactly that node and
\* takes 1 off Size().
C14_Remove ==
  \A frame_id \in FrameIds :
    LET res == Remove(Pool.replacer_, frame_id)
    IN IF frame_id \notin DOMAIN node_store_
         THEN res.exc = "none" /\ res.r = Pool.replacer_
         ELSE IF ~GetEvictable(node_store_[frame_id])
           THEN res.exc = "NonEvictable" /\ res.r = Pool.replacer_
           ELSE /\ res.exc = "none"
                /\ res.r.node_store_ = Erase(node_store_, frame_id)
                /\ Size(res.r) = Size(Pool.replacer_) - 1
                /\ res.r.current_timestamp_ = current_timestamp_

\* a pinned node that Remove refuses beside an evictable one it erases and
\* a frame that is not tracked
C14_Witness ==
  /\ \E f \in DOMAIN node_store_ :
       /\ ~GetEvictable(node_store_[f])
       /\ Remove(Pool.replacer_, f).exc = "NonEvictable"
  /\ \E g \in EvictableFrames :
       g \notin DOMAIN Remove(Pool.replacer_, g).r.node_store_
  /\ \E h \in 0 .. (replacer_size_ - 1) : h \notin DOMAIN node_store_

-----------------------------------------------------------------------------
(* Page guards *)

\* the guards that hold a pin of frame f, calls that wait for a latch included
Owners(f) ==
  {i \in GuardIds : /\ guards[i].kind # "none"
                    /\ Owning(guards[i].guard_)
                    /\ guards[i].guard_.page_ = f}

\* the live guards of one kind on frame f
LiveOn(kind, f) ==
  {i \in Owners(f) : guards[i].kind = kind /\ guards[i].pc = "live"}

\* the calls of UnpinPage among the calls made by an operation
Unpins(w) == SelectSeq(w.events, LAMBDA e : e.op = "UnpinPage")

PinCounts(w) == [f \in Frames |-> w.s.pages_[f].pin_count_]

\* a guard that holds a page or holds nothing
Sound(g) == Owning(g) \/ ~g.bpm_

\* C15: every pin taken by a fetch or by NewPageGuarded belongs to exactly
\* one guard and is given back by exactly one UnpinPage: the pin count of a
\* frame is the number of guards that hold it; Drop and destruction of a
\* guard that holds a page make one call of UnpinPage for that page, lower
\* the pin count of its frame by one and leave the guard empty, so that a
\* second Drop does nothing and no Drop ever finds its page already
\* unpinned; Drop and destruction of an empty guard
\* (moved-from, dropped, upgraded-from) do nothing; a move hands the page
\* over without a call; a move assignment releases the page held before as
\* Drop does and hands over the other; an upgrade keeps the pin; a fetch
\* followed by the drop of its guard leaves the pin counts as they were.
C15_GuardsReleaseOnce ==
  /\ \A f \in Frames : pages_[f].pin_count_ = Cardinality(Owners(f))
  /\ halt \notin {"Exception", "terminate"}
  /\ \A page_id \in DOMAIN page_table_ :
       halt = "none" =>
       LET res == FetchPageBasic(World, page_id, <<>>)
       IN /\ PinCounts(res.w) =
               [PinCounts(World) EXCEPT ![page_table_[page_id]] = @ + 1]
          /\ PinCounts(BasicDrop(res.w, res.ret).w) = PinCounts(World)
  /\ \A i \in GuardIds :
       (halt = "none" /\ guards[i].pc = "live") =>
         LET kind == guards[i].kind
             g == guards[i].guard_
             drop == DropOf(kind, World, g)
             destroy == DestroyOf(kind, World, g)
             move == MoveOf(kind, World, g)
         IN /\ ~g.bpm_ =>
                 /\ drop = [w |-> World, g |-> g]
                 /\ destroy = [w |-> World, g |-> g]
            /\ Owning(g) =>
                 /\ drop.w.halt = "none"
                 /\ Unpins(drop.w) =
                      <<[op |-> "UnpinPage", frame |-> g.page_,
                         page_id |-> pages_[g.page_].page_id_,
                         is_dirty |-> g.is_dirty_]>>
                 /\ PinCounts(drop.w) =
                      [PinCounts(World) EXCEPT ![g.page_] = @ - 1]
                 /\ drop.g = DefaultGuard
                 /\ DropOf(kind, drop.w, drop.g) = drop
                 /\ destroy = drop
            /\ move = [w |-> World, this |-> g, that |-> DefaultGuard]
            /\ \A j \in GuardIds \ {i} :
                 (guards[j].pc = "live" /\ guards[j].kind = kind
                    /\ Sound(g) /\ Sound(guards[j].guard_)) =>
                   LET assign == AssignOf(kind, World, guards[j].guard_, g)
                   IN /\ assign.w = DropOf(kind, World, guards[j].guard_).w
                      /\ assign.this = g
                      /\ assign.that = DefaultGuard
            /\ (kind = "Basic" /\ Sound(g)) =>
                 /\ CanUpgradeRead(World, g) =>
                      LET up == UpgradeRead(World, g)
                      IN /\ up.w.s = Pool
                         /\ up.this = DefaultGuard
                         /\ up.temp.bpm_ = g.bpm_ /\ up.temp.page_ = g.page_
                 /\ CanUpgradeWrite(World, g) =>
                      LET up == UpgradeWrite(World, g)
                      IN /\ up.w.s = Pool
                         /\ up.this = DefaultGuard
                         /\ up.temp.bpm_ = g.bpm_ /\ up.temp.page_ = g.page_

\* a write guard made by an upgrade holds one frame, the basic guard it came
\* from and a dropped guard are empty, the page of the dropped guard is
\* resident without a pin, and another page is held by two guards
C15_Witness ==
  /\ halt = "none"
  /\ \E i \in GuardIds, j \in GuardIds :
       /\ guards[i] = Slot("Basic", "live", DefaultGuard)
       /\ guards[j].kind = "Write" /\ guards[j].pc = "live"
       /\ Owning(guards[j].guard_)
  /\ \E f \in Frames :
       pages_[f].page_id_ # INVALID_PAGE_ID /\ pages_[f].pin_count_ = 0

LatchCall(op, f) ==
  [op |-> op, frame |-> f, page_id |-> INVALID_PAGE_ID, is_dirty |-> FALSE]

UnpinCall(g) ==
  [op |-> "UnpinPage", frame |-> g.page_,
   page_id |-> pages_[g.page_].page_id_, is_dirty |-> g.is_dirty_]

\* C16: the latch of a frame is held by its live read and write guards and
\* by nothing else: its readers are the live read guards of the frame, its
\* writer is the one live write guard, and a write guard is alone on its
\* frame while read guards share it; a latched frame is pinned; FetchPageRead,
\* FetchPageWrite, UpgradeRead and UpgradeWrite take the latch once; Drop and
\* destruction of a read or write guard that holds a page release the latch
\* once and then make the one call of UnpinPage.
C16_LatchDiscipline ==
  /\ \A f \in Frames :
       /\ rwlatch_[f].readers = Cardinality(LiveOn("Read", f))
       /\ rwlatch_[f].writer <=> LiveOn("Write", f) # {}
       /\ Cardinality(LiveOn("Write", f)) <= 1
       /\ LiveOn("Write", f) # {} => LiveOn("Read", f) = {}
       /\ pages_[f].pin_count_ >=
            Cardinality(LiveOn("Read", f)) + Cardinality(LiveOn("Write", f))
  /\ \A i \in GuardIds :
       LET kind == guards[i].kind
           g == guards[i].guard_
       IN (halt = "none" /\ Owning(g)) =>
            /\ (guards[i].pc = "live" /\ kind = "Read") =>
                 /\ ReadDrop(World, g).w.events =
                      <<LatchCall("RUnlatch", g.page_), UnpinCall(g)>>
                 /\ ReadDrop(World, g).w.l =
                      [rwlatch_ EXCEPT ![g.page_].readers = @ - 1]
                 /\ ReadDestroy(World, g) = ReadDrop(World, g)
            /\ (guards[i].pc = "live" /\ kind = "Write") =>
                 /\ WriteDrop(World, g).w.events =
                      <<LatchCall("WUnlatch", g.page_), UnpinCall(g)>>
                 /\ WriteDrop(World, g).w.l =
                      [rwlatch_ EXCEPT ![g.page_].writer = FALSE]
                 /\ WriteDestroy(World, g) = WriteDrop(World, g)
            /\ (guards[i].pc = "RLatch" /\ CanRLatch(rwlatch_, g.page_)) =>
                 /\ FetchPageReadLatch(World, g.page_).w.events =
                      <<LatchCall("RLatch", g.page_)>>
                 /\ FetchPageReadLatch(World, g.page_).w.l =
                      [rwlatch_ EXCEPT ![g.page_].readers = @ + 1]
            /\ (guards[i].pc = "WLatch" /\ CanWLatch(rwlatch_, g.page_)) =>
                 /\ FetchPageWriteLatch(World, g.page_).w.events =
                      <<LatchCall("WLatch", g.page_)>>
                 /\ FetchPageWriteLatch(World, g.page_).w.l =
                      [rwlatch_ EXCEPT ![g.page_].writer = TRUE]
            /\ (kind = "Basic" /\ CanUpgradeRead(World, g)) =>
                 /\ UpgradeRead(World, g).w.events =
                      <<LatchCall("RLatch", g.page_)>>
                 /\ UpgradeRead(World, g).w.l =
                      [rwlatch_ EXCEPT ![g.page_].readers = @ + 1]
            /\ (kind = "Basic" /\ CanUpgradeWrite(World, g)) =>
                 /\ UpgradeWrite(World, g).w.events =
                      <<LatchCall("WLatch", g.page_)>>
                 /\ UpgradeWrite(World, g).w.l =
                      [rwlatch_ EXCEPT ![g.page_].writer = TRUE]

\* two read guards share a frame while a call of FetchPageWrite for the same
\* page, which holds its pin, waits for the latch
C16_Witness ==
  /\ halt = "none"
  /\ \E f \in Frames, k \in GuardIds :
       /\ Cardinality(LiveOn("Read", f)) = 2
       /\ guards[k].pc = "WLatch"
       /\ guards[k].guard_.page_ = f
       /\ ~CanWLatch(rwlatch_, f)
       /\ pages_[f].pin_count_ = 3

\* C17: the drop of a write guard marks its page dirty: for every live write
\* guard that holds a page, and for the write guard that UpgradeWrite makes
\* of every basic guard that holds a page, the UnpinPage made by Drop
\* carries is_dirty = true and the frame is dirty afterwards.
C17_WriteGuardMarksDirty ==
  \A i \in GuardIds :
    LET kind == guards[i].kind
        g == guards[i].guard_
    IN (halt = "none" /\ guards[i].pc = "live" /\ Owning(g)) =>
         /\ kind = "Write" =>
              LET drop == WriteDrop(World, g)
              IN /\ \A n \in DOMAIN Unpins(drop.w) : Unpins(drop.w)[n].is_dirty
                 /\ drop.w.s.pages_[g.page_].is_dirty_
         /\ (kind = "Basic" /\ CanUpgradeWrite(World, g)) =>
              LET up == UpgradeWrite(World, g)
                  drop == WriteDrop(up.w, up.temp)
              IN /\ \A n \in DOMAIN Unpins(drop.w) : Unpins(drop.w)[n].is_dirty
                 /\ drop.w.s.pages_[g.page_].is_dirty_

\* every frame holds a pinned page
AllPinned ==
  /\ free_list_ = <<>>
  /\ \A f \in Frames : pages_[f].pin_count_ > 0

\* C18: when every frame is pinned, NewPageGuarded and the fetch of a page
\* that is not resident, by FetchPageBasic, FetchPageRead or FetchPageWrite,
\* fail with an empty result: the pool and the latches are as before, no
\* Page is used through the null pointer, and the destruction of the guard
\* returned makes no call and does not end the process.
C18_FullPoolEmptyGuard ==
  (halt = "none" /\ AllPinned) =>
    \A order \in EvictOrders :
      /\ LET new == NewPageGuarded(World, order)
         IN /\ new.w.s = Pool /\ new.w.l = rwlatch_
            /\ BasicDestroy(new.w, new.ret) = [w |-> new.w, g |-> new.ret]
      /\ \A page_id \in Known \ DOMAIN page_table_ :
           LET basic == FetchPageBasic(World, page_id, order)
               pin == FetchPagePin(World, page_id, order)
               read == FetchPageReadLatch(pin.w, pin.page)
               write == FetchPageWriteLatch(pin.w, pin.page)
           IN /\ basic.w.s = Pool /\ basic.w.l = rwlatch_
              /\ BasicDestroy(basic.w, basic.ret) =
                   [w |-> basic.w, g |-> basic.ret]
              /\ pin.w.s = Pool /\ pin.page = NoFrame
              /\ read.w.halt = "none" /\ read.w.l = rwlatch_
              /\ ReadDestroy(read.w, read.ret) = [w |-> read.w, g |-> read.ret]
              /\ write.w.halt = "none" /\ write.w.l = rwlatch_
              /\ WriteDestroy(write.w, write.ret) =
                   [w |-> write.w, g |-> write.ret]

-----------------------------------------------------------------------------
(* Hash index *)

\* the index has been constructed and every call so far has returned
Serving == htable # NoTable /\ halt = "none"

\* what a call of GetValue(key) returns now; a call made after a call
\* that never returns finds nothing
GetValueNow(key) ==
  IF halt = "none" THEN HashTableGetValue(htable, key) ELSE NoResult

\* GetValue(key) returns what the history says is stored at key
Retrieves(key) ==
  IF stored[key] = NoValue
    THEN ~GetValueNow(key).found
    ELSE GetValueNow(key).found /\ GetValueNow(key).value = stored[key]

\* the largest number of pairs the buckets of one directory can hold
Capacity == BucketMaxSize * Pow2(DirectoryMaxDepth)

\* C19: the index is a map with unique keys: after any calls of Insert
\* and Remove, GetValue(key) returns v exactly when the last successful
\* Insert(key, v) has no successful Remove(key) after it; and after
\* Inserts of different keys, no more of them than bucket_max_size *
\* 2^directory_max_depth, GetValue finds every one of the keys.
C19_UniqueKeyMap ==
  htable # NoTable =>
    /\ \A key \in Keys : Retrieves(key)
    /\ (inserted_keys # Mixed /\ Cardinality(inserted_keys) <= Capacity)
         => \A key \in inserted_keys : GetValueNow(key).found

\* Insert(key, value) returns false and leaves every page of the index
\* as it is
Refused(key, value) ==
  \A relock \in Relocks :
    HashTableInsert(htable, key, value, relock) =
      [h |-> htable, ret |-> FALSE, halt |-> "none"]

\* the bucket that the directory gives for key holds key
Reachable(key) == HashTableGetValue(htable, key).found

\* C20: Insert(key, v2) of a key that is stored, full bucket or not,
\* returns false and changes neither the stored value nor the directory
\* nor any bucket.
C20_DuplicateInsertRefused ==
  Serving =>
    \A key \in Keys, value \in Values :
      stored[key] # NoValue => Refused(key, value)

\* the same for the keys that the directory leads to
ReachableRefused ==
  Serving =>
    \A key \in Keys, value \in Values :
      Reachable(key) => Refused(key, value)

\* where the index looks for key: the directory page, the slot and the
\* bucket page; NoRoute while the header has no directory for key
NoRoute == [dir_page |-> INVALID_PAGE_ID, bucket_idx |-> 0,
            bucket_page |-> INVALID_PAGE_ID]

Route(h, key) ==
  LET dir_page == h.header_[1].directory_page_ids_[
                    HashToDirectoryIndex(h.header_[1], Hash(key))]
  IN IF dir_page = INVALID_PAGE_ID THEN NoRoute
     ELSE LET dir == h.directories_[dir_page]
              bucket_idx == HashToBucketIndex(dir, Hash(key))
          IN [dir_page |-> dir_page, bucket_idx |-> bucket_idx,
              bucket_page |-> GetBucketPageId(dir, bucket_idx)]

\* the bucket of key is full of other keys
FullFor(h, key) ==
  /\ Route(h, key).bucket_page # INVALID_PAGE_ID
  /\ IsFull(h.buckets_[Route(h, key).bucket_page], h.bucket_max_size_)
  /\ key \notin BucketKeys(h.buckets_[Route(h, key).bucket_page])

\* the bucket of key has the depth of the directory, which is the largest
AtMaxDepth(h, key) ==
  LET dir == h.directories_[Route(h, key).dir_page]
  IN /\ dir.global_depth_ = h.directory_max_depth_
     /\ GetLocalDepth(dir, Route(h, key).bucket_idx) = dir.global_depth_

\* no split separates key from the keys of its bucket
Colliding(h, key) ==
  \A k \in BucketKeys(h.buckets_[Route(h, key).bucket_page]) :
    Hash(k) % Pow2(h.directory_max_depth_)
      = Hash(key) % Pow2(h.directory_max_depth_)

\* every key is found or not found in h2 as it is in h1
SamePairs(h1, h2) ==
  \A k \in Keys : HashTableGetValue(h1, k) = HashTableGetValue(h2, k)

\* Insert(key, value) returns false and leaves the stored pairs
Rejected(key, value) ==
  \A relock \in Relocks :
    LET res == HashTableInsert(htable, key, value, relock)
    IN res.halt = "none" /\ ~res.ret /\ SamePairs(htable, res.h)

\* C21: an Insert that meets a full bucket of the largest depth, at once
\* or after the splits that the call itself makes, returns false and
\* every key is retrievable with the value it had.
C21_FullAtMaxDepth ==
  Serving =>
    \A key \in Keys, value \in Values :
      (FullFor(htable, key)
         /\ (AtMaxDepth(htable, key) \/ Colliding(htable, key)))
        => Rejected(key, value)

\* the part of C21 about a bucket that has the largest depth at the call
FullAtMaxDepthAtOnce ==
  Serving =>
    \A key \in Keys, value \in Values :
      (FullFor(htable, key) /\ AtMaxDepth(htable, key))
        => Rejected(key, value)

\* the bucket pages that a slot in use of some directory points to
Referenced(h) ==
  {p \in DOMAIN h.buckets_ :
     \E d \in DOMAIN h.directories_ :
       \E i \in 0 .. (Pow2(h.directories_[d].global_depth_) - 1) :
         GetBucketPageId(h.directories_[d], i) = p}

\* C22: a Remove that merges two buckets deletes the page that does not
\* survive, so the bucket pages of the pool are those that a slot of a
\* directory points to.
C22_OrphanPageDeleted ==
  Serving => DOMAIN htable.buckets_ \subseteq Referenced(htable)

\* no pair is stored
Emptied == \A key \in Keys : stored[key] = NoValue

\* no directory can shrink
Shrunk(h) ==
  \A d \in DOMAIN h.directories_ : ~CanShrink(h.directories_[d])

\* C23: once every key that was inserted has been removed the global
\* depth is 0, and after every Remove the directory cannot shrink: its
\* global depth is 0 or the local depth of some slot.
C23_ShrinksBack ==
  Serving =>
    /\ Emptied => \A d \in DOMAIN htable.directories_ :
                    htable.directories_[d].global_depth_ = 0
    /\ \A key \in Keys, relock \in Relocks :
         LET res == HashTableRemove(htable, key, relock)
         IN res.halt = "none" => Shrunk(res.h)

\* the part of C23 about the directory after each Remove
ShrunkAfterRemove ==
  Serving =>
    \A key \in Keys, relock \in Relocks :
      LET res == HashTableRemove(htable, key, relock)
      IN res.halt = "none" => Shrunk(res.h)

\* the slots in use of a directory
Live(dir) == 0 .. (Pow2(dir.global_depth_) - 1)

WellFormed(dir) ==
  /\ \A i \in Live(dir) : dir.local_depths_[i] <= dir.global_depth_
  /\ \A i, j \in Live(dir) :
       (dir.bucket_page_ids_[i] = dir.bucket_page_ids_[j])
         <=> /\ dir.local_depths_[i] = dir.local_depths_[j]
             /\ i % Pow2(dir.local_depths_[i]) = j % Pow2(dir.local_depths_[i])

AllWellFormed(h) ==
  \A d \in DOMAIN h.directories_ : WellFormed(h.directories_[d])

\* C24: after every Insert and Remove each directory is well formed: no
\* local depth above the global depth, and two slots share a bucket page
\* exactly when they have the same local depth and agree on that many
\* low bits, also when more than two slots point to the bucket.
C24_DirectoryWellFormed == Serving => AllWellFormed(htable)

\* Insert alone keeps a well formed directory well formed
InsertKeepsWellFormed ==
  (Serving /\ AllWellFormed(htable)) =>
    \A key \in Keys, value \in Values, relock \in Relocks :
      LET res == HashTableInsert(htable, key, value, relock)
      IN res.halt = "none" => AllWellFormed(res.h)

\* Remove alone keeps a well formed directory well formed
RemoveKeepsWellFormed ==
  (Serving /\ AllWellFormed(htable)) =>
    \A key \in Keys, relock \in Relocks :
      LET res == HashTableRemove(htable, key, relock)
      IN res.halt = "none" => AllWellFormed(res.h)

(* Threads *)

\* thread t asks for the latch of a page on which it holds a latch itself:
\* no step of another thread lets it go on
SelfLocked(t) ==
  /\ Fetching(threads[t])
  /\ Wanted(threads[t]) \in Latched(threads[t])

\* C25: every call of Insert terminates: a call of Insert made by Insert
\* while the caller holds the write guards of the directory and of the
\* bucket never asks for a latch that its own thread holds, so it neither
\* waits for ever for it nor ends the process.
C25_InsertTerminates ==
  \A t \in ThreadIds : threads[t].op = "Insert" => ~SelfLocked(t)

\* the two outcomes of the relock are there: the thread waiting with the
\* process alive, and the process ended by the exception
InsertWaitsForItself ==
  \E t \in ThreadIds :
    threads[t].op = "Insert" /\ SelfLocked(t) /\ halt = "none"

InsertRelockThrows ==
  \E t \in ThreadIds :
    threads[t].op = "Insert" /\ SelfLocked(t) /\ halt = "system_error"

\* thread t holds a latch of the header page
HeaderHeld(t) == htable.header_page_id_ \in Latched(threads[t])

\* thread t holds the write latch of the directory page of its call
DirectoryWriteHeld(t) ==
  \E n \in DOMAIN threads[t].guards_ :
    threads[t].guards_[n] = Guard(threads[t].dir_page, "W")

\* thread t has read the id of the directory page from the header and has
\* no guard of the directory yet
BeforeDirectory(t) ==
  threads[t].pc = "FetchDirectory" /\ ~DirectoryWriteHeld(t)

\* thread t is in Insert or Remove, past the fetch of the directory
PastDirectory(t) ==
  /\ threads[t].op \in {"Insert", "Remove"}
  /\ threads[t].pc \in {"Directory", "FetchBucket", "Bucket", "FetchSplit"}

\* C26: in GetValue, Insert and Remove the header guard is let go only
\* after the directory guard is there: a thread that has read the
\* directory page id and waits for the directory holds the header latch;
\* and a thread in Insert or Remove holds the write latch of the directory
\* from its fetch to the end of the changes to the directory.
C26_HeaderUntilDirectory ==
  \A t \in ThreadIds :
    /\ BeforeDirectory(t) => HeaderHeld(t)
    /\ PastDirectory(t) => DirectoryWriteHeld(t)

\* the part of C26 that the code keeps: Insert holds the header latch
\* until it has the directory, and Insert and Remove hold the write latch
\* of the directory while they change it
InsertHeaderUntilDirectory ==
  \A t \in ThreadIds :
    /\ (threads[t].op = "Insert" /\ BeforeDirectory(t)) => HeaderHeld(t)
    /\ PastDirectory(t) => DirectoryWriteHeld(t)

\* a directory page that is there changes only in a step of a thread that
\* holds its write latch
DirectoryChangedUnderLatch ==
  [][htable # NoTable =>
       \A d \in DOMAIN htable.directories_ :
         (d \in DOMAIN htable'.directories_
            /\ htable'.directories_[d] # htable.directories_[d])
           => \E t \in ThreadIds :
                /\ threads[t].dir_page = d
                /\ DirectoryWriteHeld(t)]_vars

\* a thread in GetValue or in Remove between the two fetches, with no latch
HoldsNeitherLatch ==
  \E t \in ThreadIds :
    /\ threads[t].op \in {"GetValue", "Remove"}
    /\ BeforeDirectory(t)
    /\ Latched(threads[t]) = {}

\* a thread in Insert waiting for the directory with the header latched
InsertBeforeDirectory ==
  \E t \in ThreadIds :
    threads[t].op = "Insert" /\ BeforeDirectory(t) /\ HeaderHeld(t)

\* C27: the assertions inside Insert hold in every execution: in every
\* state of the index and for every key and value, a call of Insert fails
\* none of them (the bucket is full when the bucket insert fails for a key
\* that is not there; bucket and split image have the same local depth
\* after the increments; every entry of the old bucket goes to the old or
\* to the new page; so does the new key).
C27_InsertAssertions ==
  /\ halt # "assert"
  /\ Serving =>
       \A key \in Keys, value \in Values :
         HashTableInsert(htable, key, value, "deadlock").halt # "assert"

\* thread t is inside a fetch whose latch it cannot get now
Blocked(t) ==
  /\ halt = "none"
  /\ Fetching(threads[t])
  /\ ~CanLatch(rwlatch_, Wanted(threads[t]),
               LatchMode(threads[t].op, threads[t].pc))

\* the threads that hold a latch of the page
Holders(page) == {u \in ThreadIds : page \in Latched(threads[u])}

\* some threads wait for latches that only threads among them hold: none
\* of them takes a step again
Deadlocked ==
  \E S \in SUBSET ThreadIds :
    /\ S # {}
    /\ \A t \in S : Blocked(t) /\ Holders(Wanted(threads[t])) \subseteq S

\* the latches are taken in the order header, directory, bucket: a thread
\* that asks for the header holds no latch, one that asks for a directory
\* holds at most the header
LatchOrder ==
  \A t \in ThreadIds :
    /\ threads[t].pc = "FetchHeader" => Latched(threads[t]) = {}
    /\ threads[t].pc = "FetchDirectory" =>
         Latched(threads[t]) \subseteq {htable.header_page_id_}

\* C28: with a pool that has a frame for every page, no interleaving of
\* GetValue, Insert and Remove of several threads deadlocks: the latches
\* are taken in the order header, directory, bucket, sibling, no threads
\* wait for each other in a cycle, and the process does not end inside a
\* call, so every call returns with its latches released.
C28_DeadlockFree ==
  /\ ~Deadlocked
  /\ LatchOrder
  /\ halt = "none"

\* two threads in a cycle: each waits for a latch that the other holds
TwoThreadCycle ==
  \E t, u \in ThreadIds :
    /\ t # u
    /\ Blocked(t) /\ Blocked(u)
    /\ Holders(Wanted(threads[t])) = {u}
    /\ Holders(Wanted(threads[u])) = {t}

\* threads that do not hold any directory latch from an earlier call of
\* Insert do not deadlock: every deadlock has a thread inside the call of
\* line 173
DeadlockOnlyByRecursion ==
  Deadlocked =>
    \E t \in ThreadIds :
      /\ threads[t].op = "Insert"
      /\ threads[t].pc \in {"FetchHeader", "Header", "FetchDirectory"}
      /\ DirectoryWriteHeld(t)

====
